---------------------------- MODULE Spec2Model ----------------------------
(***************************************************************************)
(* State-machine model of the chart-pattern detection engine              *)
(* (findPatterns with the SHSDetector / ISHSDetector / TrendTracker        *)
(* classes).  Times and prices are integers; a value of the neckline is a  *)
(* rational number kept as <<numerator, denominator>> with a positive      *)
(* denominator, and compared by cross-multiplication.                      *)
(***************************************************************************)
EXTENDS Integers, Sequences, FiniteSets, TLC

(***************************************************************************)
(* Bounds of the explored input family.                                    *)
(***************************************************************************)
MaxPrice == 4
MidLen == 3
JumpAt == 7
TrendLen == 7
TrendMaxPrice == 3
InterpMax == 3
MaxCalls == 2
MaxLead == 2
FollowLen == 5
ShapeMaxPrice == 5

(***************************************************************************)
(* Program constants.                                                      *)
(***************************************************************************)
NA_INTEGER == -2147483647 - 1
NA_REAL == -999
INVALID_TIME == -1
MinPivots == 7
NumFixed == 6
NumRel == 5
TrendCompleteLen == 3

Prices == 1..MaxPrice

fixedWindows == <<1, 3, 5, 10, 30, 60>>

VARIABLES
    PrePro_indexFilter,   \* pivot indices into the original series, 0-based function
    Original_times,       \* time[0..N-1]
    Original_prices,      \* price[0..N-1]
    pc,                   \* position of findPatterns: "start","loop","final","emit","done","error"
    i,                    \* main loop index (pivot position)
    trendTracker,         \* the TrendTracker object
    trendReset,           \* result of the last updateTrends call
    potentialPatterns,    \* deque of PatternData under monitoring
    output,               \* emitted records (rows of the result data frames)
    g_patternDataCount,   \* global counter of live PatternData objects
    returned              \* results of the completed calls, oldest first

vars == <<PrePro_indexFilter, Original_times, Original_prices, pc, i,
          trendTracker, trendReset, potentialPatterns, output,
          g_patternDataCount, returned>>

\* state that outlives a call of findPatterns
globals == <<g_patternDataCount, returned>>

inputs == <<PrePro_indexFilter, Original_times, Original_prices>>

(***************************************************************************)
(* Input arrays.                                                           *)
(***************************************************************************)
N == Cardinality(DOMAIN Original_prices)
M == Cardinality(DOMAIN PrePro_indexFilter)

\* QuerySeries = Original[PrePro_indexFilter]
QuerySeries_prices(k) == Original_prices[PrePro_indexFilter[k]]
QuerySeries_times(k) == Original_times[PrePro_indexFilter[k]]

ZeroBased(s) == [k \in 0..(Len(s) - 1) |-> s[k + 1]]

(***************************************************************************)
(* Geometry kernel.                                                        *)
(***************************************************************************)
Q(n) == <<n, 1>>
LessQ(a, b) == a[1] * b[2] < b[1] * a[2]
GreaterQ(a, b) == LessQ(b, a)

safeLinearInterpolation_noFallback(x1, x2, y1, y2, x) ==
    IF x2 = x1
    THEN <<y1, 1>>
    ELSE IF x2 > x1
         THEN <<y1 * (x2 - x1) + (x - x1) * (y2 - y1), x2 - x1>>
         ELSE <<y1 * (x1 - x2) + (x - x1) * (y1 - y2), x1 - x2>>

\* the value as a quotient <<numerator, denominator>> with denominator > 0;
\* integer coordinates differ by 0 or by at least 1, so the epsilon test of
\* the code is the test x2 = x1
safeLinearInterpolation(x1, x2, y1, y2, x) ==
    IF x2 = x1
    THEN <<y1 + y2, 2>>
    ELSE IF x2 > x1
         THEN <<y1 * (x2 - x1) + (x - x1) * (y2 - y1), x2 - x1>>
         ELSE <<y1 * (x1 - x2) + (x - x1) * (y1 - y2), x1 - x2>>

\* slopes as <<kind, numerator, denominator>>: a finite quotient with
\* denominator > 0, or what IEEE division by zero yields
Finite(n, d) == IF d > 0 THEN <<"num", n, d>> ELSE <<"num", -n, -d>>
PosInf == <<"inf", 1, 0>>
NegInf == <<"-inf", -1, 0>>
NaN == <<"nan", 0, 0>>

\* getSlope: the bare quotient of doubles; for x2 = x1 the divisor is 0.0 and
\* the quotient is +inf, -inf or NaN by the sign of y2 - y1
getSlope(x1, x2, y1, y2) ==
    IF x2 # x1 THEN Finite(y2 - y1, x2 - x1)
    ELSE IF y2 > y1 THEN PosInf
    ELSE IF y2 < y1 THEN NegInf
    ELSE NaN

\* calculateSlope: 0 when |x2 - x1| < 1e-10, which for integer coordinates
\* is x2 = x1
calculateSlope(x1, x2, y1, y2) ==
    IF x2 = x1 THEN Finite(0, 1) ELSE Finite(y2 - y1, x2 - x1)

(***************************************************************************)
(* Return values: missing, a ratio a/b, or log(a/b).                       *)
(***************************************************************************)
NAret == <<"NA", 0, 0>>
Ratio(a, b) == <<"ratio", a, b>>
LogRatio(a, b) == <<"log", a, b>>

(***************************************************************************)
(* PatternData                                                             *)
(***************************************************************************)
PatternData ==
    [ startIdx |-> -1,
      rightShoulderIdx |-> -1,
      breakoutIdx |-> NA_INTEGER,
      patternName |-> "",
      timeStamps |-> [k \in 0..6 |-> 0],
      priceStamps |-> [k \in 0..6 |-> 0],
      priorTrendStartPrice |-> NA_REAL,
      priorTrendStartTime |-> INVALID_TIME,
      priorTrendPointsCount |-> 0,
      priorTrendComplete |-> FALSE,
      followingTrendStartPrice |-> NA_REAL,
      followingTrendStartTime |-> INVALID_TIME,
      followingTrendPointsCount |-> 0,
      followingTrendComplete |-> FALSE,
      fixedWindowsFound |-> [w \in 1..NumFixed |-> FALSE],
      relWindowsFound |-> [w \in 1..NumRel |-> FALSE],
      returns |-> [w \in 1..NumFixed |-> NAret],
      relReturns |-> [w \in 1..NumRel |-> NAret],
      processed |-> FALSE ]

FillPattern_fromOrigin(name, position) ==
    [PatternData EXCEPT
        !.patternName = name,
        !.startIdx = position,
        !.rightShoulderIdx = position + 5,
        !.breakoutIdx = NA_INTEGER,
        !.timeStamps = [k \in 0..6 |-> IF k < 6 THEN QuerySeries_times(k) ELSE 0],
        !.priceStamps = [k \in 0..6 |-> IF k < 6 THEN QuerySeries_prices(k) ELSE 0]]

\* the part of detect that fills outPattern once the shape is accepted
FillPattern(name, position) ==
    [PatternData EXCEPT
        !.patternName = name,
        !.startIdx = position,
        !.rightShoulderIdx = position + 5,
        !.breakoutIdx = NA_INTEGER,
        !.timeStamps = [k \in 0..6 |-> IF k < 6 /\ position + k < M
                                       THEN QuerySeries_times(position + k) ELSE 0],
        !.priceStamps = [k \in 0..6 |-> IF k < 6 /\ position + k < M
                                        THEN QuerySeries_prices(position + k) ELSE 0]]

\* neckline of the window at `position`, evaluated at the time of pivot position+k
WindowNeckline(position, k) ==
    safeLinearInterpolation(QuerySeries_times(position + 2), QuerySeries_times(position + 4),
                            QuerySeries_prices(position + 2), QuerySeries_prices(position + 4),
                            QuerySeries_times(position + k))

(***************************************************************************)
(* SHSDetector                                                             *)
(***************************************************************************)
SHSDetector_isValid_noFirstPoint(position) ==
    /\ position + 5 < M
    /\ QuerySeries_prices(position) < QuerySeries_prices(position + 1)
    /\ QuerySeries_prices(position) < QuerySeries_prices(position + 2)
    /\ QuerySeries_prices(position + 1) < QuerySeries_prices(position + 3)
    /\ QuerySeries_prices(position + 5) < QuerySeries_prices(position + 3)
    /\ GreaterQ(Q(QuerySeries_prices(position + 5)), WindowNeckline(position, 5))
    /\ GreaterQ(Q(QuerySeries_prices(position + 1)), WindowNeckline(position, 1))

SHSDetector_isValid(position) ==
    /\ position + 5 < M
    /\ QuerySeries_prices(position) < QuerySeries_prices(position + 1)
    /\ QuerySeries_prices(position) < QuerySeries_prices(position + 2)
    /\ QuerySeries_prices(position + 1) < QuerySeries_prices(position + 3)
    /\ QuerySeries_prices(position + 5) < QuerySeries_prices(position + 3)
    /\ GreaterQ(Q(QuerySeries_prices(position + 5)), WindowNeckline(position, 5))
    /\ GreaterQ(Q(QuerySeries_prices(position + 1)), WindowNeckline(position, 1))
    /\ LessQ(Q(QuerySeries_prices(position)), WindowNeckline(position, 0))

SHSDetector_detect(position) ==
    IF SHSDetector_isValid(position)
    THEN [detected |-> TRUE, pattern |-> FillPattern("SHS", position)]
    ELSE [detected |-> FALSE, pattern |-> PatternData]

PatternNeckline(pattern, t) ==
    safeLinearInterpolation(pattern.timeStamps[2], pattern.timeStamps[4],
                            pattern.priceStamps[2], pattern.priceStamps[4], t)

StoreBreakout_atCurrent(pattern, currentIndexPosition) ==
    [pattern EXCEPT
        !.breakoutIdx = currentIndexPosition,
        !.timeStamps[6] = Original_times[currentIndexPosition],
        !.priceStamps[6] = Original_prices[currentIndexPosition]]

StoreBreakout(pattern, currentIndexPosition) ==
    [pattern EXCEPT
        !.breakoutIdx = currentIndexPosition + 1,
        !.timeStamps[6] = Original_times[currentIndexPosition + 1],
        !.priceStamps[6] = Original_prices[currentIndexPosition + 1]]

SHSDetector_breakoutDetected(currentIndexPosition, pattern) ==
    /\ ~(currentIndexPosition <= pattern.rightShoulderIdx \/ currentIndexPosition >= N - 1)
    /\ LessQ(Q(Original_prices[currentIndexPosition]),
             PatternNeckline(pattern, Original_times[currentIndexPosition]))
    /\ Original_prices[currentIndexPosition + 1] < pattern.priceStamps[5]

SHSDetector_detectBreakout(currentIndexPosition, pattern) ==
    IF SHSDetector_breakoutDetected(currentIndexPosition, pattern)
    THEN [ret |-> TRUE, pattern |-> StoreBreakout(pattern, currentIndexPosition)]
    ELSE [ret |-> FALSE, pattern |-> pattern]

\* variant that leaves out the first sample after the right shoulder
SHSDetector_isPatternInvalidated_afterStart(position, pattern) ==
    /\ position > PrePro_indexFilter[pattern.rightShoulderIdx] + 1
    /\ ~(position >= N)
    /\ Original_prices[position] > pattern.priceStamps[5]

SHSDetector_isPatternInvalidated(position, pattern) ==
    /\ position > pattern.rightShoulderIdx
    /\ ~(position >= N)
    /\ Original_prices[position] > pattern.priceStamps[5]

(***************************************************************************)
(* ISHSDetector                                                            *)
(***************************************************************************)
ISHSDetector_isValid_unmirrored(position) ==
    /\ position + 5 < M
    /\ QuerySeries_prices(position) < QuerySeries_prices(position + 1)
    /\ QuerySeries_prices(position) < QuerySeries_prices(position + 2)
    /\ QuerySeries_prices(position + 1) < QuerySeries_prices(position + 3)
    /\ QuerySeries_prices(position + 5) < QuerySeries_prices(position + 3)
    /\ GreaterQ(Q(QuerySeries_prices(position + 5)), WindowNeckline(position, 5))
    /\ GreaterQ(Q(QuerySeries_prices(position + 1)), WindowNeckline(position, 1))
    /\ LessQ(Q(QuerySeries_prices(position)), WindowNeckline(position, 0))

ISHSDetector_isValid(position) ==
    /\ position + 5 < M
    /\ QuerySeries_prices(position) > QuerySeries_prices(position + 1)
    /\ QuerySeries_prices(position) > QuerySeries_prices(position + 2)
    /\ QuerySeries_prices(position + 1) > QuerySeries_prices(position + 3)
    /\ QuerySeries_prices(position + 5) > QuerySeries_prices(position + 3)
    /\ LessQ(Q(QuerySeries_prices(position + 5)), WindowNeckline(position, 5))
    /\ LessQ(Q(QuerySeries_prices(position + 1)), WindowNeckline(position, 1))
    /\ GreaterQ(Q(QuerySeries_prices(position)), WindowNeckline(position, 0))

ISHSDetector_detect(position) ==
    IF ISHSDetector_isValid(position)
    THEN [detected |-> TRUE, pattern |-> FillPattern("iSHS", position)]
    ELSE [detected |-> FALSE, pattern |-> PatternData]

ISHSDetector_breakoutDetected(currentIndexPosition, pattern) ==
    /\ ~(currentIndexPosition <= pattern.rightShoulderIdx \/ currentIndexPosition >= N - 1)
    /\ GreaterQ(Q(Original_prices[currentIndexPosition]),
                PatternNeckline(pattern, Original_times[currentIndexPosition]))
    /\ Original_prices[currentIndexPosition + 1] > pattern.priceStamps[5]

ISHSDetector_detectBreakout(currentIndexPosition, pattern) ==
    IF ISHSDetector_breakoutDetected(currentIndexPosition, pattern)
    THEN [ret |-> TRUE, pattern |-> StoreBreakout(pattern, currentIndexPosition)]
    ELSE [ret |-> FALSE, pattern |-> pattern]

ISHSDetector_isPatternInvalidated(position, pattern) ==
    /\ position > pattern.rightShoulderIdx
    /\ ~(position >= N)
    /\ Original_prices[position] < pattern.priceStamps[5]


(***************************************************************************)
(* Return calculator (updateReturns of both detectors).                    *)
(***************************************************************************)
\* the breakout price/time used by updateReturns: the stored value, or the
\* fallback read of the original arrays when the stored value is 0
UR_priceStored(pattern) ==
    pattern.priceStamps[6] # 0 /\ pattern.priceStamps[6] # NA_REAL

UR_timeStored(pattern) == pattern.timeStamps[6] # 0

UR_breakoutInRange(pattern) ==
    pattern.breakoutIdx >= 0 /\ pattern.breakoutIdx < N

UR_breakoutPrice(pattern) ==
    IF UR_priceStored(pattern) THEN pattern.priceStamps[6]
    ELSE Original_prices[pattern.breakoutIdx]

UR_breakoutTime(pattern) ==
    IF UR_timeStored(pattern) THEN pattern.timeStamps[6]
    ELSE Original_times[pattern.breakoutIdx]

UR_patternStartTime(pattern) ==
    IF pattern.startIdx >= 0 /\ pattern.startIdx < N
    THEN Original_times[pattern.startIdx]
    ELSE pattern.timeStamps[0]

UR_patternLengthInDays(pattern) ==
    LET d == UR_breakoutTime(pattern) - UR_patternStartTime(pattern)
    IN IF d <= 0 THEN 1 ELSE d

relWindows(pattern) ==
    LET L == UR_patternLengthInDays(pattern)
    IN <<L \div 3, L \div 2, L, L * 2, L * 4>>

\* a fixed / relative window is filled by this call
FixedHit_noGuard(pattern, timeDiff, w) == timeDiff > fixedWindows[w]

FixedHit(pattern, timeDiff, w) ==
    ~pattern.fixedWindowsFound[w] /\ timeDiff > fixedWindows[w]

RelHit(pattern, timeDiff, w) ==
    ~pattern.relWindowsFound[w] /\ timeDiff > relWindows(pattern)[w]

AllFound(pattern) ==
    /\ \A w \in 1..NumFixed : pattern.fixedWindowsFound[w]
    /\ \A w \in 1..NumRel : pattern.relWindowsFound[w]

\* variant that divides the sample price by the breakout price
SHSDetector_updateReturns_inverted(currentPosition, pattern) ==
    IF pattern.breakoutIdx = NA_INTEGER \/ currentPosition <= pattern.breakoutIdx
    THEN [ret |-> FALSE, pattern |-> pattern]
    ELSE IF currentPosition >= N
    THEN [ret |-> FALSE, pattern |-> pattern]
    ELSE IF ~UR_priceStored(pattern) /\ ~UR_breakoutInRange(pattern)
    THEN [ret |-> FALSE, pattern |-> pattern]
    ELSE
      LET breakoutPrice == UR_breakoutPrice(pattern)
          p1 == [pattern EXCEPT !.priceStamps[6] = breakoutPrice]
      IN IF ~UR_timeStored(p1) /\ ~UR_breakoutInRange(p1)
         THEN [ret |-> FALSE, pattern |-> p1]
         ELSE
           LET breakoutTime == UR_breakoutTime(p1)
               p2 == [p1 EXCEPT !.timeStamps[6] = breakoutTime]
               timeDiff == Original_times[currentPosition] - breakoutTime
               cur == Original_prices[currentPosition]
               hitF(w) == FixedHit(p2, timeDiff, w)
               hitR(w) == RelHit(p2, timeDiff, w)
               p3 == [p2 EXCEPT
                   !.returns = [w \in 1..NumFixed |->
                        IF hitF(w)
                        THEN (IF w = 1 THEN LogRatio(cur, breakoutPrice)
                                       ELSE Ratio(cur, breakoutPrice))
                        ELSE p2.returns[w]],
                   !.fixedWindowsFound = [w \in 1..NumFixed |->
                        p2.fixedWindowsFound[w] \/ hitF(w)],
                   !.relReturns = [w \in 1..NumRel |->
                        IF hitR(w) THEN Ratio(cur, breakoutPrice)
                        ELSE p2.relReturns[w]],
                   !.relWindowsFound = [w \in 1..NumRel |->
                        p2.relWindowsFound[w] \/ hitR(w)]]
           IN [ret |-> AllFound(p3), pattern |-> p3]

SHSDetector_updateReturns(currentPosition, pattern) ==
    IF pattern.breakoutIdx = NA_INTEGER \/ currentPosition <= pattern.breakoutIdx
    THEN [ret |-> FALSE, pattern |-> pattern]
    ELSE IF currentPosition >= N
    THEN [ret |-> FALSE, pattern |-> pattern]
    ELSE IF ~UR_priceStored(pattern) /\ ~UR_breakoutInRange(pattern)
    THEN [ret |-> FALSE, pattern |-> pattern]
    ELSE
      LET breakoutPrice == UR_breakoutPrice(pattern)
          p1 == [pattern EXCEPT !.priceStamps[6] = breakoutPrice]
      IN IF ~UR_timeStored(p1) /\ ~UR_breakoutInRange(p1)
         THEN [ret |-> FALSE, pattern |-> p1]
         ELSE
           LET breakoutTime == UR_breakoutTime(p1)
               p2 == [p1 EXCEPT !.timeStamps[6] = breakoutTime]
               timeDiff == Original_times[currentPosition] - breakoutTime
               cur == Original_prices[currentPosition]
               hitF(w) == FixedHit(p2, timeDiff, w)
               hitR(w) == RelHit(p2, timeDiff, w)
               p3 == [p2 EXCEPT
                   !.returns = [w \in 1..NumFixed |->
                        IF hitF(w)
                        THEN (IF w = 1 THEN LogRatio(breakoutPrice, cur)
                                       ELSE Ratio(breakoutPrice, cur))
                        ELSE p2.returns[w]],
                   !.fixedWindowsFound = [w \in 1..NumFixed |->
                        p2.fixedWindowsFound[w] \/ hitF(w)],
                   !.relReturns = [w \in 1..NumRel |->
                        IF hitR(w) THEN Ratio(breakoutPrice, cur)
                        ELSE p2.relReturns[w]],
                   !.relWindowsFound = [w \in 1..NumRel |->
                        p2.relWindowsFound[w] \/ hitR(w)]]
           IN [ret |-> AllFound(p3), pattern |-> p3]

\* variant that keeps the SHS orientation of the ratios
ISHSDetector_updateReturns_unmirrored(currentPosition, pattern) ==
    IF pattern.breakoutIdx = NA_INTEGER \/ currentPosition <= pattern.breakoutIdx
    THEN [ret |-> FALSE, pattern |-> pattern]
    ELSE IF currentPosition >= N
    THEN [ret |-> FALSE, pattern |-> pattern]
    ELSE IF ~UR_priceStored(pattern) /\ ~UR_breakoutInRange(pattern)
    THEN [ret |-> FALSE, pattern |-> pattern]
    ELSE
      LET breakoutPrice == UR_breakoutPrice(pattern)
          p1 == [pattern EXCEPT !.priceStamps[6] = breakoutPrice]
      IN IF ~UR_timeStored(p1) /\ ~UR_breakoutInRange(p1)
         THEN [ret |-> FALSE, pattern |-> p1]
         ELSE
           LET breakoutTime == UR_breakoutTime(p1)
               p2 == [p1 EXCEPT !.timeStamps[6] = breakoutTime]
               timeDiff == Original_times[currentPosition] - breakoutTime
               cur == Original_prices[currentPosition]
               hitF(w) == FixedHit(p2, timeDiff, w)
               hitR(w) == RelHit(p2, timeDiff, w)
               p3 == [p2 EXCEPT
                   !.returns = [w \in 1..NumFixed |->
                        IF hitF(w)
                        THEN (IF w = 1 THEN LogRatio(breakoutPrice, cur)
                                       ELSE Ratio(breakoutPrice, cur))
                        ELSE p2.returns[w]],
                   !.fixedWindowsFound = [w \in 1..NumFixed |->
                        p2.fixedWindowsFound[w] \/ hitF(w)],
                   !.relReturns = [w \in 1..NumRel |->
                        IF hitR(w) THEN Ratio(breakoutPrice, cur)
                        ELSE p2.relReturns[w]],
                   !.relWindowsFound = [w \in 1..NumRel |->
                        p2.relWindowsFound[w] \/ hitR(w)]]
           IN [ret |-> AllFound(p3), pattern |-> p3]

ISHSDetector_updateReturns(currentPosition, pattern) ==
    IF pattern.breakoutIdx = NA_INTEGER \/ currentPosition <= pattern.breakoutIdx
    THEN [ret |-> FALSE, pattern |-> pattern]
    ELSE IF currentPosition >= N
    THEN [ret |-> FALSE, pattern |-> pattern]
    ELSE IF ~UR_priceStored(pattern) /\ ~UR_breakoutInRange(pattern)
    THEN [ret |-> FALSE, pattern |-> pattern]
    ELSE
      LET breakoutPrice == UR_breakoutPrice(pattern)
          p1 == [pattern EXCEPT !.priceStamps[6] = breakoutPrice]
      IN IF ~UR_timeStored(p1) /\ ~UR_breakoutInRange(p1)
         THEN [ret |-> FALSE, pattern |-> p1]
         ELSE
           LET breakoutTime == UR_breakoutTime(p1)
               p2 == [p1 EXCEPT !.timeStamps[6] = breakoutTime]
               timeDiff == Original_times[currentPosition] - breakoutTime
               cur == Original_prices[currentPosition]
               hitF(w) == FixedHit(p2, timeDiff, w)
               hitR(w) == RelHit(p2, timeDiff, w)
               p3 == [p2 EXCEPT
                   !.returns = [w \in 1..NumFixed |->
                        IF hitF(w)
                        THEN (IF w = 1 THEN LogRatio(cur, breakoutPrice)
                                       ELSE Ratio(cur, breakoutPrice))
                        ELSE p2.returns[w]],
                   !.fixedWindowsFound = [w \in 1..NumFixed |->
                        p2.fixedWindowsFound[w] \/ hitF(w)],
                   !.relReturns = [w \in 1..NumRel |->
                        IF hitR(w) THEN Ratio(cur, breakoutPrice)
                        ELSE p2.relReturns[w]],
                   !.relWindowsFound = [w \in 1..NumRel |->
                        p2.relWindowsFound[w] \/ hitR(w)]]
           IN [ret |-> AllFound(p3), pattern |-> p3]

(***************************************************************************)
(* Virtual dispatch through pattern.detector.                              *)
(***************************************************************************)
isPatternInvalidated(position, pattern) ==
    IF pattern.patternName = "SHS"
    THEN SHSDetector_isPatternInvalidated(position, pattern)
    ELSE ISHSDetector_isPatternInvalidated(position, pattern)

detectBreakout(position, pattern) ==
    IF pattern.patternName = "SHS"
    THEN SHSDetector_detectBreakout(position, pattern)
    ELSE ISHSDetector_detectBreakout(position, pattern)

updateReturns(position, pattern) ==
    IF pattern.patternName = "SHS"
    THEN SHSDetector_updateReturns(position, pattern)
    ELSE ISHSDetector_updateReturns(position, pattern)

(***************************************************************************)
(* TrendTracker                                                            *)
(***************************************************************************)
TrendTracker_reset ==
    [ ascHighCount |-> 0, ascLowCount |-> 0, descHighCount |-> 0, descLowCount |-> 0,
      prevAscHighCount |-> 0, prevAscLowCount |-> 0,
      prevDescHighCount |-> 0, prevDescLowCount |-> 0,
      ascHighFirstIdx |-> -1, ascLowFirstIdx |-> -1,
      descHighFirstIdx |-> -1, descLowFirstIdx |-> -1,
      ascHighFirstPrice |-> -1, ascLowFirstPrice |-> -1,
      descHighFirstPrice |-> -1, descLowFirstPrice |-> -1,
      ascHighFirstTime |-> -1, ascLowFirstTime |-> -1,
      descHighFirstTime |-> -1, descLowFirstTime |-> -1 ]

\* variant that takes the even positions for highs
isPivotHigh_evenHigh(position) == position % 2 = 0

isPivotHigh(position) == position % 2 # 0

\* the four branches of updateTrends; s is the tracker with the prev* counters
\* saved, old/oldT the price and time of pivot position-2
AscLow_noReset(s, position, old, oldT) ==
    [tt |-> [s EXCEPT
                !.ascLowFirstIdx = IF s.ascLowCount = 0 THEN position - 2 ELSE @,
                !.ascLowFirstPrice = IF s.ascLowCount = 0 THEN old ELSE @,
                !.ascLowFirstTime = IF s.ascLowCount = 0 THEN oldT ELSE @,
                !.ascLowCount = @ + 1],
     reset |-> s.descLowCount > 0]

AscLow(s, position, old, oldT) ==
    [tt |-> [s EXCEPT
                !.ascLowFirstIdx = IF s.ascLowCount = 0 THEN position - 2 ELSE @,
                !.ascLowFirstPrice = IF s.ascLowCount = 0 THEN old ELSE @,
                !.ascLowFirstTime = IF s.ascLowCount = 0 THEN oldT ELSE @,
                !.ascLowCount = @ + 1,
                !.descLowCount = 0],
     reset |-> s.descLowCount > 0]

AscHigh(s, position, old, oldT) ==
    [tt |-> [s EXCEPT
                !.ascHighFirstIdx = IF s.ascHighCount = 0 THEN position - 2 ELSE @,
                !.ascHighFirstPrice = IF s.ascHighCount = 0 THEN old ELSE @,
                !.ascHighFirstTime = IF s.ascHighCount = 0 THEN oldT ELSE @,
                !.ascHighCount = @ + 1,
                !.descHighCount = 0],
     reset |-> s.descHighCount > 0]

DescLow(s, position, old, oldT) ==
    [tt |-> [s EXCEPT
                !.descLowFirstIdx = IF s.descLowCount = 0 THEN position - 2 ELSE @,
                !.descLowFirstPrice = IF s.descLowCount = 0 THEN old ELSE @,
                !.descLowFirstTime = IF s.descLowCount = 0 THEN oldT ELSE @,
                !.descLowCount = @ + 1,
                !.ascLowCount = 0],
     reset |-> s.ascLowCount > 0]

\* variant that reports a reset on every descending high
DescHigh_alwaysReset(s, position, old, oldT) ==
    [tt |-> [s EXCEPT
                !.descHighFirstIdx = IF s.descHighCount = 0 THEN position - 2 ELSE @,
                !.descHighFirstPrice = IF s.descHighCount = 0 THEN old ELSE @,
                !.descHighFirstTime = IF s.descHighCount = 0 THEN oldT ELSE @,
                !.descHighCount = @ + 1,
                !.ascHighCount = 0],
     reset |-> TRUE]

DescHigh(s, position, old, oldT) ==
    [tt |-> [s EXCEPT
                !.descHighFirstIdx = IF s.descHighCount = 0 THEN position - 2 ELSE @,
                !.descHighFirstPrice = IF s.descHighCount = 0 THEN old ELSE @,
                !.descHighFirstTime = IF s.descHighCount = 0 THEN oldT ELSE @,
                !.descHighCount = @ + 1,
                !.ascHighCount = 0],
     reset |-> s.ascHighCount > 0]

\* variant that treats an equal price as a lower one
updateTrends_equalBreaks(t, position) ==
    IF position < 2
    THEN [tt |-> t, reset |-> FALSE]
    ELSE
      LET s == [t EXCEPT !.prevAscHighCount = t.ascHighCount,
                         !.prevAscLowCount = t.ascLowCount,
                         !.prevDescHighCount = t.descHighCount,
                         !.prevDescLowCount = t.descLowCount]
          cur == QuerySeries_prices(position)
          old == QuerySeries_prices(position - 2)
          oldT == QuerySeries_times(position - 2)
      IN IF cur > old
         THEN IF ~isPivotHigh(position)
              THEN AscLow(s, position, old, oldT)
              ELSE AscHigh(s, position, old, oldT)
         ELSE IF cur <= old
         THEN IF ~isPivotHigh(position)
              THEN DescLow(s, position, old, oldT)
              ELSE DescHigh(s, position, old, oldT)
         ELSE [tt |-> s, reset |-> FALSE]

\* updateTrends: the tracker after the call (tt) and the returned flag (reset)
updateTrends(t, position) ==
    IF position < 2
    THEN [tt |-> t, reset |-> FALSE]
    ELSE
      LET s == [t EXCEPT !.prevAscHighCount = t.ascHighCount,
                         !.prevAscLowCount = t.ascLowCount,
                         !.prevDescHighCount = t.descHighCount,
                         !.prevDescLowCount = t.descLowCount]
          cur == QuerySeries_prices(position)
          old == QuerySeries_prices(position - 2)
          oldT == QuerySeries_times(position - 2)
      IN IF cur > old
         THEN IF ~isPivotHigh(position)
              THEN AscLow(s, position, old, oldT)
              ELSE AscHigh(s, position, old, oldT)
         ELSE IF cur < old
         THEN IF ~isPivotHigh(position)
              THEN DescLow(s, position, old, oldT)
              ELSE DescHigh(s, position, old, oldT)
         ELSE [tt |-> s, reset |-> FALSE]

\* variant that takes the ascending-high run for SHS
applyTrendInfo_highRun(t, pattern) ==
    IF pattern.patternName = "SHS"
    THEN [pattern EXCEPT
            !.priorTrendStartPrice = IF t.ascHighCount > 0 THEN t.ascHighFirstPrice ELSE -1,
            !.priorTrendStartTime = IF t.ascHighCount > 0 THEN t.ascHighFirstTime ELSE INVALID_TIME,
            !.priorTrendPointsCount = IF t.ascHighCount > 0 THEN t.ascHighCount ELSE 0,
            !.priorTrendComplete = TRUE,
            !.followingTrendComplete = FALSE]
    ELSE IF pattern.patternName = "iSHS"
    THEN [pattern EXCEPT
            !.priorTrendStartPrice = IF t.descHighCount > 0 THEN t.descHighFirstPrice ELSE -1,
            !.priorTrendStartTime = IF t.descHighCount > 0 THEN t.descHighFirstTime ELSE INVALID_TIME,
            !.priorTrendPointsCount = IF t.descHighCount > 0 THEN t.descHighCount ELSE 0,
            !.priorTrendComplete = TRUE,
            !.followingTrendComplete = FALSE]
    ELSE pattern

applyTrendInfo(t, pattern) ==
    IF pattern.patternName = "SHS"
    THEN [pattern EXCEPT
            !.priorTrendStartPrice = IF t.ascLowCount > 0 THEN t.ascLowFirstPrice ELSE -1,
            !.priorTrendStartTime = IF t.ascLowCount > 0 THEN t.ascLowFirstTime ELSE INVALID_TIME,
            !.priorTrendPointsCount = IF t.ascLowCount > 0 THEN t.ascLowCount ELSE 0,
            !.priorTrendComplete = TRUE,
            !.followingTrendComplete = FALSE]
    ELSE IF pattern.patternName = "iSHS"
    THEN [pattern EXCEPT
            !.priorTrendStartPrice = IF t.descHighCount > 0 THEN t.descHighFirstPrice ELSE -1,
            !.priorTrendStartTime = IF t.descHighCount > 0 THEN t.descHighFirstTime ELSE INVALID_TIME,
            !.priorTrendPointsCount = IF t.descHighCount > 0 THEN t.descHighCount ELSE 0,
            !.priorTrendComplete = TRUE,
            !.followingTrendComplete = FALSE]
    ELSE pattern

\* variant that prefers the high run when the two counters tie
CopyFollowing_highOnTie(pattern, lowC, lowP, lowT, highC, highP, highT) ==
    IF lowC > 0 \/ highC > 0
    THEN IF lowC > highC
         THEN [pattern EXCEPT !.followingTrendStartPrice = lowP,
                              !.followingTrendStartTime = lowT,
                              !.followingTrendPointsCount = lowC]
         ELSE [pattern EXCEPT !.followingTrendStartPrice = highP,
                              !.followingTrendStartTime = highT,
                              !.followingTrendPointsCount = highC]
    ELSE pattern

\* the following-trend copy shared by applyTrendInfoToPatterns and
\* applyFinalTrendInfo: lowC/highC are the two relevant run counters
CopyFollowing(pattern, lowC, lowP, lowT, highC, highP, highT) ==
    IF lowC > 0 \/ highC > 0
    THEN IF lowC >= highC
         THEN [pattern EXCEPT !.followingTrendStartPrice = lowP,
                              !.followingTrendStartTime = lowT,
                              !.followingTrendPointsCount = lowC]
         ELSE [pattern EXCEPT !.followingTrendStartPrice = highP,
                              !.followingTrendStartTime = highT,
                              !.followingTrendPointsCount = highC]
    ELSE pattern

\* variant that marks the following trend complete from a run of any length
applyTrendInfoToPattern_anyLength(t, pattern) ==
    IF pattern.processed THEN pattern
    ELSE IF pattern.patternName = "SHS" /\ pattern.breakoutIdx # NA_INTEGER
            /\ ~pattern.followingTrendComplete
    THEN LET q == CopyFollowing(pattern, t.descLowCount, t.descLowFirstPrice, t.descLowFirstTime,
                                t.descHighCount, t.descHighFirstPrice, t.descHighFirstTime)
         IN IF (t.descLowCount > 0 \/ t.descHighCount > 0)
               /\ (t.descLowCount >= 1 \/ t.descHighCount >= 1)
            THEN [q EXCEPT !.followingTrendComplete = TRUE]
            ELSE q
    ELSE IF pattern.patternName = "iSHS" /\ pattern.breakoutIdx # NA_INTEGER
            /\ ~pattern.followingTrendComplete
    THEN LET q == CopyFollowing(pattern, t.ascLowCount, t.ascLowFirstPrice, t.ascLowFirstTime,
                                t.ascHighCount, t.ascHighFirstPrice, t.ascHighFirstTime)
         IN IF (t.ascLowCount > 0 \/ t.ascHighCount > 0)
               /\ (t.ascLowCount >= 1 \/ t.ascHighCount >= 1)
            THEN [q EXCEPT !.followingTrendComplete = TRUE]
            ELSE q
    ELSE pattern

applyTrendInfoToPattern(t, pattern) ==
    IF pattern.processed THEN pattern
    ELSE IF pattern.patternName = "SHS" /\ pattern.breakoutIdx # NA_INTEGER
            /\ ~pattern.followingTrendComplete
    THEN LET q == CopyFollowing(pattern, t.descLowCount, t.descLowFirstPrice, t.descLowFirstTime,
                                t.descHighCount, t.descHighFirstPrice, t.descHighFirstTime)
         IN IF (t.descLowCount > 0 \/ t.descHighCount > 0)
               /\ (t.descLowCount >= TrendCompleteLen \/ t.descHighCount >= TrendCompleteLen)
            THEN [q EXCEPT !.followingTrendComplete = TRUE]
            ELSE q
    ELSE IF pattern.patternName = "iSHS" /\ pattern.breakoutIdx # NA_INTEGER
            /\ ~pattern.followingTrendComplete
    THEN LET q == CopyFollowing(pattern, t.ascLowCount, t.ascLowFirstPrice, t.ascLowFirstTime,
                                t.ascHighCount, t.ascHighFirstPrice, t.ascHighFirstTime)
         IN IF (t.ascLowCount > 0 \/ t.ascHighCount > 0)
               /\ (t.ascLowCount >= TrendCompleteLen \/ t.ascHighCount >= TrendCompleteLen)
            THEN [q EXCEPT !.followingTrendComplete = TRUE]
            ELSE q
    ELSE pattern

\* variant that re-attaches the prior trend of unfinished candidates at every
\* reset
applyTrendInfoToPatterns_refreshPrior(t, patterns) ==
    [k \in DOMAIN patterns |->
        applyTrendInfoToPattern(t,
            IF patterns[k].processed THEN patterns[k]
            ELSE [applyTrendInfo(t, patterns[k]) EXCEPT
                    !.followingTrendComplete = patterns[k].followingTrendComplete])]

applyTrendInfoToPatterns(t, patterns) ==
    [k \in DOMAIN patterns |-> applyTrendInfoToPattern(t, patterns[k])]

\* variant that also flushes processed patterns
applyFinalTrendInfoToPattern_all(t, pattern) ==
    IF pattern.patternName = "SHS" /\ pattern.breakoutIdx # NA_INTEGER
       /\ ~pattern.followingTrendComplete
    THEN [CopyFollowing(pattern, t.descLowCount, t.descLowFirstPrice, t.descLowFirstTime,
                        t.descHighCount, t.descHighFirstPrice, t.descHighFirstTime)
            EXCEPT !.followingTrendComplete = TRUE]
    ELSE IF pattern.patternName = "iSHS" /\ pattern.breakoutIdx # NA_INTEGER
            /\ ~pattern.followingTrendComplete
    THEN [CopyFollowing(pattern, t.ascLowCount, t.ascLowFirstPrice, t.ascLowFirstTime,
                        t.ascHighCount, t.ascHighFirstPrice, t.ascHighFirstTime)
            EXCEPT !.followingTrendComplete = TRUE]
    ELSE pattern

\* variant that flushes candidates whether or not they have a breakout
applyFinalTrendInfoToPattern_noBreakout(t, pattern) ==
    IF pattern.processed THEN pattern
    ELSE IF pattern.patternName = "SHS"
            /\ ~pattern.followingTrendComplete
    THEN [CopyFollowing(pattern, t.descLowCount, t.descLowFirstPrice, t.descLowFirstTime,
                        t.descHighCount, t.descHighFirstPrice, t.descHighFirstTime)
            EXCEPT !.followingTrendComplete = TRUE]
    ELSE IF pattern.patternName = "iSHS"
            /\ ~pattern.followingTrendComplete
    THEN [CopyFollowing(pattern, t.ascLowCount, t.ascLowFirstPrice, t.ascLowFirstTime,
                        t.ascHighCount, t.ascHighFirstPrice, t.ascHighFirstTime)
            EXCEPT !.followingTrendComplete = TRUE]
    ELSE pattern

applyFinalTrendInfoToPattern(t, pattern) ==
    IF pattern.processed THEN pattern
    ELSE IF pattern.patternName = "SHS" /\ pattern.breakoutIdx # NA_INTEGER
            /\ ~pattern.followingTrendComplete
    THEN [CopyFollowing(pattern, t.descLowCount, t.descLowFirstPrice, t.descLowFirstTime,
                        t.descHighCount, t.descHighFirstPrice, t.descHighFirstTime)
            EXCEPT !.followingTrendComplete = TRUE]
    ELSE IF pattern.patternName = "iSHS" /\ pattern.breakoutIdx # NA_INTEGER
            /\ ~pattern.followingTrendComplete
    THEN [CopyFollowing(pattern, t.ascLowCount, t.ascLowFirstPrice, t.ascLowFirstTime,
                        t.ascHighCount, t.ascHighFirstPrice, t.ascHighFirstTime)
            EXCEPT !.followingTrendComplete = TRUE]
    ELSE pattern

applyFinalTrendInfo(t, patterns) ==
    [k \in DOMAIN patterns |-> applyFinalTrendInfoToPattern(t, patterns[k])]


(***************************************************************************)
(* findPatterns: one iteration of the main loop.                           *)
(***************************************************************************)
DetectPhase_firstOnly(t, patterns, pos) ==
    LET d1 == SHSDetector_detect(pos)
    IN IF d1.detected THEN Append(patterns, applyTrendInfo(t, d1.pattern))
       ELSE patterns

\* first phase: both detectors are tried at position pos, SHS first
DetectPhase(t, patterns, pos) ==
    LET d1 == SHSDetector_detect(pos)
        pp1 == IF d1.detected THEN Append(patterns, applyTrendInfo(t, d1.pattern))
               ELSE patterns
        d2 == ISHSDetector_detect(pos)
    IN IF d2.detected THEN Append(pp1, applyTrendInfo(t, d2.pattern)) ELSE pp1

\* the scan over the raw samples after the right shoulder, up to c
RECURSIVE BreakoutScan(_, _, _)
BreakoutScan(pattern, j, c) ==
    IF ~(j <= c /\ j < N - 1)
    THEN pattern
    ELSE IF isPatternInvalidated(j, pattern)
    THEN [pattern EXCEPT !.processed = TRUE]
    ELSE LET b == detectBreakout(j, pattern)
         IN IF b.ret
            THEN updateReturns(j, b.pattern).pattern
            ELSE BreakoutScan(b.pattern, j + 1, c)

\* variant whose scan starts one sample later
MonitorPattern_lateStart(pattern, pos, c) ==
    IF pattern.processed THEN pattern
    ELSE IF pattern.rightShoulderIdx > pos THEN pattern
    ELSE IF isPatternInvalidated(c, pattern)
    THEN [pattern EXCEPT !.processed = TRUE]
    ELSE IF pattern.breakoutIdx = NA_INTEGER
    THEN BreakoutScan(pattern, PrePro_indexFilter[pattern.rightShoulderIdx] + 2, c)
    ELSE LET r == updateReturns(c, pattern)
         IN IF r.ret THEN [r.pattern EXCEPT !.processed = TRUE] ELSE r.pattern

\* variant that does not skip processed patterns
MonitorPattern_rescans(pattern, pos, c) ==
    IF pattern.rightShoulderIdx > pos THEN pattern
    ELSE IF isPatternInvalidated(c, pattern)
    THEN [pattern EXCEPT !.processed = TRUE]
    ELSE IF pattern.breakoutIdx = NA_INTEGER
    THEN BreakoutScan(pattern, PrePro_indexFilter[pattern.rightShoulderIdx] + 1, c)
    ELSE LET r == updateReturns(c, pattern)
         IN IF r.ret THEN [r.pattern EXCEPT !.processed = TRUE] ELSE r.pattern

\* variant that runs the breakout check again at the current pivot sample
MonitorPattern_rechecks(pattern, pos, c) ==
    IF pattern.processed THEN pattern
    ELSE IF pattern.rightShoulderIdx > pos THEN pattern
    ELSE IF isPatternInvalidated(c, pattern)
    THEN [pattern EXCEPT !.processed = TRUE]
    ELSE IF pattern.breakoutIdx = NA_INTEGER
    THEN BreakoutScan(pattern, PrePro_indexFilter[pattern.rightShoulderIdx] + 1, c)
    ELSE LET b == detectBreakout(c, pattern)
             r == updateReturns(c, b.pattern)
         IN IF r.ret THEN [r.pattern EXCEPT !.processed = TRUE] ELSE r.pattern

\* second phase for one pattern; c = currentOriginalPos
\* variant whose breakout scan runs one sample past the current pivot
MonitorPattern_scansAhead(pattern, pos, c) ==
    IF pattern.processed THEN pattern
    ELSE IF pattern.rightShoulderIdx > pos THEN pattern
    ELSE IF isPatternInvalidated(c, pattern)
    THEN [pattern EXCEPT !.processed = TRUE]
    ELSE IF pattern.breakoutIdx = NA_INTEGER
    THEN BreakoutScan(pattern, PrePro_indexFilter[pattern.rightShoulderIdx] + 1, c + 1)
    ELSE LET r == updateReturns(c, pattern)
         IN IF r.ret THEN [r.pattern EXCEPT !.processed = TRUE] ELSE r.pattern

MonitorPattern(pattern, pos, c) ==
    IF pattern.processed THEN pattern
    ELSE IF pattern.rightShoulderIdx > pos THEN pattern
    ELSE IF isPatternInvalidated(c, pattern)
    THEN [pattern EXCEPT !.processed = TRUE]
    ELSE IF pattern.breakoutIdx = NA_INTEGER
    THEN BreakoutScan(pattern, PrePro_indexFilter[pattern.rightShoulderIdx] + 1, c)
    ELSE LET r == updateReturns(c, pattern)
         IN IF r.ret THEN [r.pattern EXCEPT !.processed = TRUE] ELSE r.pattern

MonitorPhase(patterns, pos) ==
    IF patterns = <<>> THEN patterns
    ELSE LET c == PrePro_indexFilter[pos]
         IN IF c < 0 \/ c >= N THEN patterns
            ELSE IF c >= N - 1 THEN patterns
            ELSE [k \in DOMAIN patterns |-> MonitorPattern(patterns[k], pos, c)]

(***************************************************************************)
(* The array elements one main-loop iteration reads.  Pivot reads index    *)
(* QuerySeries and PrePro_indexFilter (0..M-1), sample reads index the     *)
(* original arrays (0..N-1).  Each set follows the guards of the code; the *)
(* scan's early exits are ignored, so the sets may only be too large.      *)
(***************************************************************************)
TrendReads_noGuard(position) == {position, position - 2}

\* updateTrends: prices[position], prices[position-2], times[position-2]
TrendReads(position) ==
    IF position < 2 THEN {} ELSE {position, position - 2}

\* detect: prices and times at position..position+5
DetectReads(position) ==
    IF position + 5 >= M THEN {} ELSE position..(position + 5)

\* the scan of one pattern up to c: prices[j], times[j] and prices[j+1]
ScanReads(pattern, c) ==
    LET first == PrePro_indexFilter[pattern.rightShoulderIdx] + 1
    IN UNION {{j, j + 1} : j \in {j2 \in first..c : j2 < N - 1}}

\* patterns the second phase does not skip at position pos
Monitored(patterns, pos) ==
    {patterns[k] : k \in {k2 \in DOMAIN patterns : patterns[k2].rightShoulderIdx <= pos}}

PivotReads(patterns, pos) ==
    TrendReads(pos) \cup DetectReads(pos)
        \cup (IF patterns = <<>> THEN {}
              ELSE {pos} \cup {p.rightShoulderIdx : p \in Monitored(patterns, pos)})

SampleReads(patterns, pos) ==
    IF patterns = <<>> THEN {}
    ELSE LET c == PrePro_indexFilter[pos]
         IN IF c < 0 \/ c >= N THEN {}
            ELSE IF c >= N - 1 THEN {}
            ELSE {c} \cup UNION {ScanReads(p, c) : p \in Monitored(patterns, pos)}
                     \cup {p.startIdx : p \in {p2 \in Monitored(patterns, pos) :
                                                  p2.startIdx >= 0 /\ p2.startIdx < N}}

OutputRecord_stampsAlways(pattern) ==
    LET isValid == pattern.breakoutIdx # NA_INTEGER
    IN [ PatternName |-> pattern.patternName,
         validPattern |-> isValid,
         firstIndexinPrePro |-> pattern.startIdx + 1,
         firstIndexinOriginal |->
             IF pattern.startIdx < 0 \/ pattern.startIdx >= M THEN NA_INTEGER
             ELSE PrePro_indexFilter[pattern.startIdx] + 1,
         breakoutIndexinOrig |-> pattern.breakoutIdx,
         timeStamps |-> [k \in 0..5 |-> pattern.timeStamps[k]],
         priceStamps |-> [k \in 0..5 |-> pattern.priceStamps[k]],
         timeStampBreakOut |-> pattern.timeStamps[6],
         priceStampBreakOut |-> pattern.priceStamps[6],
         TrendBeginnPreis |-> pattern.priorTrendStartPrice,
         TrendBeginnZeit |-> pattern.priorTrendStartTime,
         TrendPointsCount |-> pattern.priorTrendPointsCount,
         TrendBeginnPreisFollowing |-> pattern.followingTrendStartPrice,
         TrendBeginnZeitFollowing |-> pattern.followingTrendStartTime,
         TrendPointsCountFollowing |-> pattern.followingTrendPointsCount,
         returns |-> pattern.returns,
         relReturns |-> pattern.relReturns ]

\* result assembly: one row of the three data frames
OutputRecord(pattern) ==
    LET isValid == pattern.breakoutIdx # NA_INTEGER
    IN [ PatternName |-> pattern.patternName,
         validPattern |-> isValid,
         firstIndexinPrePro |-> pattern.startIdx + 1,
         firstIndexinOriginal |->
             IF pattern.startIdx < 0 \/ pattern.startIdx >= M THEN NA_INTEGER
             ELSE PrePro_indexFilter[pattern.startIdx] + 1,
         breakoutIndexinOrig |-> pattern.breakoutIdx,
         timeStamps |-> [k \in 0..5 |-> pattern.timeStamps[k]],
         priceStamps |-> [k \in 0..5 |-> pattern.priceStamps[k]],
         timeStampBreakOut |-> IF isValid THEN pattern.timeStamps[6] ELSE NA_INTEGER,
         priceStampBreakOut |-> IF isValid THEN pattern.priceStamps[6] ELSE NA_REAL,
         TrendBeginnPreis |-> pattern.priorTrendStartPrice,
         TrendBeginnZeit |-> pattern.priorTrendStartTime,
         TrendPointsCount |-> pattern.priorTrendPointsCount,
         TrendBeginnPreisFollowing |-> pattern.followingTrendStartPrice,
         TrendBeginnZeitFollowing |-> pattern.followingTrendStartTime,
         TrendPointsCountFollowing |-> pattern.followingTrendPointsCount,
         returns |-> IF isValid THEN pattern.returns
                     ELSE [w \in 1..NumFixed |-> NAret],
         relReturns |-> IF isValid THEN pattern.relReturns
                        ELSE [w \in 1..NumRel |-> NAret] ]

(***************************************************************************)
(* FastFindII: the single-pass implementation over the same three inputs.  *)
(***************************************************************************)
\* getSlope and linearInterpolation: y2 + (y2 - y1) / (x2 - x1) * (atPosition - x2),
\* kept as a fraction with a positive denominator (x1 # x2 on increasing times)
linearInterpolation(x1, x2, y1, y2, atPosition) ==
    IF x2 > x1
    THEN <<y2 * (x2 - x1) + (y2 - y1) * (atPosition - x2), x2 - x1>>
    ELSE <<y2 * (x1 - x2) + (y1 - y2) * (atPosition - x2), x1 - x2>>

\* the neckline through pivots start+2 and start+4, evaluated at time t
FF_neckline(start, t) ==
    linearInterpolation(QuerySeries_times(start + 2), QuerySeries_times(start + 4),
                        QuerySeries_prices(start + 2), QuerySeries_prices(start + 4), t)

\* last start position of the main loop: for (i = 0; i < size - 6; ++i)
FF_lastStart_short == M - 8
FF_lastStart == M - 7

isSHSPattern(start) ==
    /\ QuerySeries_prices(start) < QuerySeries_prices(start + 1)
    /\ QuerySeries_prices(start) < QuerySeries_prices(start + 2)
    /\ QuerySeries_prices(start + 1) < QuerySeries_prices(start + 3)
    /\ QuerySeries_prices(start + 5) < QuerySeries_prices(start + 3)
    /\ GreaterQ(Q(QuerySeries_prices(start + 5)), FF_neckline(start, QuerySeries_times(start + 5)))
    /\ GreaterQ(Q(QuerySeries_prices(start + 1)), FF_neckline(start, QuerySeries_times(start + 1)))
    /\ LessQ(Q(QuerySeries_prices(start)), FF_neckline(start, QuerySeries_times(start)))

isISHSPattern(start) ==
    /\ QuerySeries_prices(start) > QuerySeries_prices(start + 1)
    /\ QuerySeries_prices(start) > QuerySeries_prices(start + 2)
    /\ QuerySeries_prices(start + 1) > QuerySeries_prices(start + 3)
    /\ QuerySeries_prices(start + 5) > QuerySeries_prices(start + 3)
    /\ LessQ(Q(QuerySeries_prices(start + 5)), FF_neckline(start, QuerySeries_times(start + 5)))
    /\ LessQ(Q(QuerySeries_prices(start + 1)), FF_neckline(start, QuerySeries_times(start + 1)))
    /\ GreaterQ(Q(QuerySeries_prices(start)), FF_neckline(start, QuerySeries_times(start)))

\* the breakout loop of an SHS candidate from sample j on: the breakout index,
\* or NA_INTEGER when the loop ends or breaks without one
RECURSIVE FF_SHSBreakout(_, _)
FF_SHSBreakout(start, j) ==
    IF j >= N - 1 THEN NA_INTEGER
    ELSE IF Original_prices[j] > QuerySeries_prices(start + 5) /\ j # PrePro_indexFilter[start + 5]
    THEN NA_INTEGER
    ELSE IF /\ LessQ(Q(Original_prices[j]), FF_neckline(start, Original_times[j]))
            /\ Original_prices[j + 1] < QuerySeries_prices(start + 5)
    THEN j + 1
    ELSE FF_SHSBreakout(start, j + 1)

RECURSIVE FF_ISHSBreakout(_, _)
FF_ISHSBreakout(start, j) ==
    IF j >= N - 1 THEN NA_INTEGER
    ELSE IF Original_prices[j] < QuerySeries_prices(start + 5) /\ j # PrePro_indexFilter[start + 5]
    THEN NA_INTEGER
    ELSE IF /\ GreaterQ(Q(Original_prices[j]), FF_neckline(start, Original_times[j]))
            /\ Original_prices[j + 1] > QuerySeries_prices(start + 5)
    THEN j + 1
    ELSE FF_ISHSBreakout(start, j + 1)

\* the row pushed for a candidate: with its breakout when the loop found one,
\* with validPattern = false, no breakout index and the first pivot's stamps otherwise
FF_row(name, start, breakout) ==
    [ PatternName |-> name,
      validPattern |-> breakout # NA_INTEGER,
      firstIndexinPrePro |-> start + 1,
      firstIndexinOriginal |-> PrePro_indexFilter[start] + 1,
      breakoutIndexinOrig |-> breakout,
      TimeStamp |-> IF breakout # NA_INTEGER THEN Original_times[breakout]
                    ELSE QuerySeries_times(start),
      PriceStamp |-> IF breakout # NA_INTEGER THEN Original_prices[breakout]
                     ELSE QuerySeries_prices(start) ]

FF_SHSRows(start) ==
    IF ~isSHSPattern(start) THEN <<>>
    ELSE IF start + 5 < M /\ PrePro_indexFilter[start + 5] < N - 1
    THEN <<FF_row("SHS", start, FF_SHSBreakout(start, PrePro_indexFilter[start + 5]))>>
    ELSE <<FF_row("SHS", start, NA_INTEGER)>>

FF_ISHSRows(start) ==
    IF ~isISHSPattern(start) THEN <<>>
    ELSE IF start + 5 < M /\ PrePro_indexFilter[start + 5] < N - 1
    THEN <<FF_row("iSHS", start, FF_ISHSBreakout(start, PrePro_indexFilter[start + 5]))>>
    ELSE <<FF_row("iSHS", start, NA_INTEGER)>>

\* the rows of start positions start..FF_lastStart, the SHS block before the iSHS block
RECURSIVE FF_rowsFrom(_)
FF_rowsFrom(start) ==
    IF start > FF_lastStart THEN <<>>
    ELSE FF_SHSRows(start) \o FF_ISHSRows(start) \o FF_rowsFrom(start + 1)

\* the patternInfo rows FastFindII returns: none on fewer than seven pivots or
\* on a pivot index outside the series
FastFindII ==
    IF M < MinPivots THEN <<>>
    ELSE IF \E k \in DOMAIN PrePro_indexFilter :
               PrePro_indexFilter[k] < 0 \/ PrePro_indexFilter[k] >= N
    THEN <<>>
    ELSE FF_rowsFrom(0)

(***************************************************************************)
(* The explored inputs.                                                    *)
(***************************************************************************)
Prefixes == { <<1, 3, 2, 4, 2, 3>>, <<4, 2, 3, 1, 3, 2>>, <<2, 3, 2, 3, 2, 3>> }
Tails == { <<1, 3, 2, 4, 2, 3, 1>>, <<2, 2, 1, 1, 2, 2, 2>> }
Gaps == {1, 31}

\* the members of S below len, in increasing order, as a 0-based array
SortedIndex(S, len) ==
    LET IsMember(x) == x \in S
    IN ZeroBased(SelectSeq([k \in 1..len |-> k - 1], IsMember))

\* unit steps up to sample JumpAt, steps of `gap` afterwards
ProfileTime(len, gap) ==
    [k \in 0..(len - 1) |-> IF k <= JumpAt THEN k ELSE JumpAt + (k - JumpAt) * gap]

InitState ==
    /\ i = 0
    /\ trendTracker = TrendTracker_reset
    /\ trendReset = FALSE
    /\ potentialPatterns = <<>>
    /\ output = <<>>
    /\ g_patternDataCount = 0
    /\ returned = <<>>

\* well-formed inputs: a 6-pivot prefix on consecutive samples, MidLen free
\* samples of which any subset are pivots, and 7 closing pivots; the last
\* pivot the main loop visits is the first closing pivot
InitFull ==
    \E prefix \in Prefixes, tail \in Tails, gap \in Gaps,
       mid \in [1..MidLen -> Prices], mask \in SUBSET (1..MidLen) :
        /\ Original_prices = ZeroBased(prefix \o [k \in 1..MidLen |-> mid[k]] \o tail)
        /\ Original_times = ProfileTime(13 + MidLen, gap)
        /\ PrePro_indexFilter =
              SortedIndex((0..5) \cup {5 + k : k \in mask} \cup ((6 + MidLen)..(12 + MidLen)),
                          13 + MidLen)

\* inputs with fewer than 7 pivots
InitShort ==
    \E prefix \in Prefixes, len \in 0..(MinPivots - 1) :
        /\ Original_prices = ZeroBased(prefix)
        /\ Original_times = [k \in 0..5 |-> k]
        /\ PrePro_indexFilter = [k \in 0..(len - 1) |-> k]

Init == pc = "start" /\ InitState /\ (InitFull \/ InitShort)

RejectInput_afterDetection ==
    /\ pc = "start"
    /\ M < MinPivots
    /\ pc' = "error"
    /\ potentialPatterns' = DetectPhase(trendTracker, potentialPatterns, 0)
    /\ returned' = Append(returned, <<>>)
    /\ UNCHANGED <<inputs, i, trendTracker, trendReset, output, g_patternDataCount>>

RejectInput ==
    /\ pc = "start"
    /\ M < MinPivots
    /\ pc' = "error"
    /\ returned' = Append(returned, <<>>)
    /\ UNCHANGED <<inputs, i, trendTracker, trendReset, potentialPatterns, output,
                   g_patternDataCount>>

\* variant whose loop also visits pivot position M-6
MainLoopIteration_throughLast ==
    /\ pc \in {"start", "loop"}
    /\ ~(M < MinPivots)
    /\ i < M - 5
    /\ LET u == updateTrends(trendTracker, i)
           pp1 == IF u.reset THEN applyTrendInfoToPatterns(u.tt, potentialPatterns)
                  ELSE potentialPatterns
           pp2 == DetectPhase(u.tt, pp1, i)
       IN /\ trendTracker' = u.tt
          /\ trendReset' = u.reset
          /\ potentialPatterns' = MonitorPhase(pp2, i)
          \* every PatternData a detector rejected is destroyed again
          /\ g_patternDataCount' =
                g_patternDataCount + Len(pp2) - Len(potentialPatterns)
    /\ i' = i + 1
    /\ pc' = "loop"
    /\ UNCHANGED <<inputs, output, returned>>

MainLoopIteration ==
    /\ pc \in {"start", "loop"}
    /\ ~(M < MinPivots)
    /\ i < M - 6
    /\ LET u == updateTrends(trendTracker, i)
           pp1 == IF u.reset THEN applyTrendInfoToPatterns(u.tt, potentialPatterns)
                  ELSE potentialPatterns
           pp2 == DetectPhase(u.tt, pp1, i)
       IN /\ trendTracker' = u.tt
          /\ trendReset' = u.reset
          /\ potentialPatterns' = MonitorPhase(pp2, i)
          \* every PatternData a detector rejected is destroyed again
          /\ g_patternDataCount' =
                g_patternDataCount + Len(pp2) - Len(potentialPatterns)
    /\ i' = i + 1
    /\ pc' = "loop"
    /\ UNCHANGED <<inputs, output, returned>>

FinalTrendStep ==
    /\ pc = "loop"
    /\ ~(i < M - 6)
    /\ potentialPatterns' = applyFinalTrendInfo(trendTracker, potentialPatterns)
    /\ pc' = "emit"
    /\ UNCHANGED <<inputs, i, trendTracker, trendReset, output, globals>>

EmitResults ==
    /\ pc = "emit"
    /\ output' = [k \in DOMAIN potentialPatterns |-> OutputRecord(potentialPatterns[k])]
    /\ pc' = "done"
    /\ returned' = Append(returned, output')
    \* the deque is destroyed on return; potentialPatterns keeps its last value
    /\ g_patternDataCount' = g_patternDataCount - Len(potentialPatterns)
    /\ UNCHANGED <<inputs, i, trendTracker, trendReset, potentialPatterns>>

Next == RejectInput \/ MainLoopIteration \/ FinalTrendStep \/ EmitResults

Spec == Init /\ [][Next]_vars


(***************************************************************************)
(* findPatterns called repeatedly on one input.  A call builds its working *)
(* set and its TrendTracker anew; only the global counter outlives it.     *)
(***************************************************************************)
(* Inputs whose last window of 6 pivots (M-6..M-1) has the SHS or the      *)
(* iSHS shape, run through the same findPatterns.                          *)
(***************************************************************************)
LastTails == { <<4, 1, 3, 2, 4, 2, 3>>, <<1, 4, 2, 3, 1, 3, 2>> }

InitLastShaped ==
    \E prefix \in Prefixes, tail \in LastTails,
       mid \in [1..MidLen -> Prices], mask \in SUBSET (1..MidLen) :
        /\ Original_prices = ZeroBased(prefix \o [k \in 1..MidLen |-> mid[k]] \o tail)
        /\ Original_times = ProfileTime(13 + MidLen, 1)
        /\ PrePro_indexFilter =
              SortedIndex((0..5) \cup {5 + k : k \in mask} \cup ((6 + MidLen)..(12 + MidLen)),
                          13 + MidLen)

InitLastWindow == pc = "start" /\ InitState /\ (InitLastShaped \/ InitShort)

SpecLastWindow == InitLastWindow /\ [][Next]_vars

(***************************************************************************)
(* Inputs whose first pivot is not the first sample: 1..MaxLead samples    *)
(* precede the pivot stream, run through the same findPatterns.            *)
(***************************************************************************)
InitLeading ==
    \E lead \in 1..MaxLead, leadPrice \in {1, MaxPrice}, prefix \in Prefixes,
       mid \in [1..MidLen -> Prices], mask \in SUBSET (1..MidLen) :
        /\ Original_prices =
              ZeroBased([k \in 1..lead |-> leadPrice] \o prefix
                        \o [k \in 1..MidLen |-> mid[k]] \o <<1, 3, 2, 4, 2, 3, 1>>)
        \* unit steps up to the second sample after the right shoulder of the
        \* prefix window, one step of 8 after it, unit steps again
        /\ Original_times =
              [k \in 0..(lead + 12 + MidLen) |-> IF k <= lead + 7 THEN k ELSE k + 7]
        /\ PrePro_indexFilter =
              SortedIndex({lead + k : k \in (0..5) \cup {5 + m : m \in mask}
                                           \cup ((6 + MidLen)..(12 + MidLen))},
                          lead + 13 + MidLen)

InitLead == pc = "start" /\ InitState /\ (InitLeading \/ InitShort)

SpecLead == InitLead /\ [][Next]_vars

(***************************************************************************)
(* Inputs in which every sample is a pivot and FollowLen free pivots       *)
(* follow the 6-pivot prefix, so that the main loop visits pivots long     *)
(* after a breakout of the prefix candidate; 6 closing pivots end the      *)
(* series.                                                                 *)
(***************************************************************************)
Closing == <<2, 3, 2, 3, 2, 3>>

InitFollowing ==
    \E prefix \in Prefixes, follow \in [1..FollowLen -> Prices] :
        /\ Original_prices = ZeroBased(prefix \o follow \o Closing)
        /\ Original_times = [k \in 0..(11 + FollowLen) |-> k]
        /\ PrePro_indexFilter = [k \in 0..(11 + FollowLen) |-> k]

InitFollow == pc = "start" /\ InitState /\ (InitFollowing \/ InitShort)

SpecFollow == InitFollow /\ [][Next]_vars

(***************************************************************************)
InitRepeated ==
    \E prefix \in Prefixes,
       mid \in [1..MidLen -> Prices], mask \in SUBSET (1..MidLen) :
        /\ Original_prices =
              ZeroBased(prefix \o [k \in 1..MidLen |-> mid[k]] \o <<1, 3, 2, 4, 2, 3, 1>>)
        /\ Original_times = ProfileTime(13 + MidLen, 31)
        /\ PrePro_indexFilter =
              SortedIndex((0..5) \cup {5 + k : k \in mask} \cup ((6 + MidLen)..(12 + MidLen)),
                          13 + MidLen)

InitTwice == pc = "start" /\ InitState /\ (InitRepeated \/ InitShort)

CallAgain_staleTracker ==
    /\ pc \in {"done", "error"}
    /\ Len(returned) < MaxCalls
    /\ pc' = "start"
    /\ i' = 0
    /\ trendReset' = FALSE
    /\ potentialPatterns' = <<>>
    /\ output' = <<>>
    /\ UNCHANGED <<inputs, trendTracker, globals>>

CallAgain ==
    /\ pc \in {"done", "error"}
    /\ Len(returned) < MaxCalls
    /\ pc' = "start"
    /\ i' = 0
    /\ trendTracker' = TrendTracker_reset
    /\ trendReset' = FALSE
    /\ potentialPatterns' = <<>>
    /\ output' = <<>>
    /\ UNCHANGED <<inputs, globals>>

NextTwice == Next \/ CallAgain

SpecTwice == InitTwice /\ [][NextTwice]_vars

(***************************************************************************)
(* findPatterns on inputs that break the input contract: the time array    *)
(* stops increasing after sample JumpAt (gap 0), or it is one element       *)
(* longer than the price array, or both.                                    *)
(***************************************************************************)
InitBadInput ==
    \E prefix \in Prefixes, tail \in Tails, gap \in {0, 1}, extra \in {0, 1},
       mid \in [1..MidLen -> Prices], mask \in SUBSET (1..MidLen) :
        /\ gap = 0 \/ extra = 1
        /\ Original_prices = ZeroBased(prefix \o [k \in 1..MidLen |-> mid[k]] \o tail)
        /\ Original_times = ProfileTime(13 + MidLen + extra, gap)
        /\ PrePro_indexFilter =
              SortedIndex((0..5) \cup {5 + k : k \in mask} \cup ((6 + MidLen)..(12 + MidLen)),
                          13 + MidLen)

InitContract == pc = "start" /\ InitState /\ (InitBadInput \/ InitShort)

SpecContract == InitContract /\ [][Next]_vars

(***************************************************************************)
(* The Shape Matcher alone: every window of 6 pivots with prices in        *)
(* 1..ShapeMaxPrice, under four spacings of the pivot times.               *)
(***************************************************************************)
ShapeTimes ==
    { <<0, 1, 2, 3, 4, 5>>, <<0, 2, 3, 5, 6, 9>>, <<0, 1, 4, 5, 6, 7>>,
      <<0, 2, 4, 6, 8, 9>> }

InitShape ==
    /\ pc = "shape"
    /\ InitState
    /\ \E w \in [0..5 -> 1..ShapeMaxPrice], ts \in ShapeTimes :
        /\ Original_prices = w
        /\ Original_times = ZeroBased(ts)
        /\ PrePro_indexFilter = [k \in 0..5 |-> k]

DetectStep ==
    /\ pc = "shape"
    /\ potentialPatterns' = DetectPhase(trendTracker, potentialPatterns, 0)
    /\ pc' = "shape_done"
    /\ g_patternDataCount' =
          g_patternDataCount + Len(potentialPatterns') - Len(potentialPatterns)
    /\ UNCHANGED <<inputs, i, trendTracker, trendReset, output, returned>>

NextShape == DetectStep

SpecShape == InitShape /\ [][NextShape]_vars

(***************************************************************************)
(* safeLinearInterpolation alone: Original_times holds <<x1, x2, x>>,      *)
(* Original_prices holds <<y1, y2>>, the result is put into output.        *)
(***************************************************************************)
InterpInputs ==
    {<<5, 5, 10, 20, 5>>}
        \cup {<<x1, x2, y1, y2, x>> : x1 \in 0..InterpMax, x2 \in 0..InterpMax,
                                      y1 \in 0..InterpMax, y2 \in 0..InterpMax,
                                      x \in 0..InterpMax}

InitInterp ==
    /\ pc = "interp"
    /\ InitState
    /\ \E a \in InterpInputs :
        /\ Original_times = ZeroBased(<<a[1], a[2], a[5]>>)
        /\ Original_prices = ZeroBased(<<a[3], a[4]>>)
        /\ PrePro_indexFilter = ZeroBased(<<>>)

InterpolateStep ==
    /\ pc = "interp"
    /\ output' = <<safeLinearInterpolation(Original_times[0], Original_times[1],
                                           Original_prices[0], Original_prices[1],
                                           Original_times[2])>>
    /\ pc' = "interp_done"
    /\ UNCHANGED <<inputs, i, trendTracker, trendReset, potentialPatterns, globals>>

NextInterp == InterpolateStep

SpecInterp == InitInterp /\ [][NextInterp]_vars

(***************************************************************************)
(* The two slope routines on one pair of points: getSlope as the feature   *)
(* computation of FastFindII calls it, calculateSlope beside it.           *)
(***************************************************************************)
SlopeInputs ==
    {<<x1, x2, y1, y2>> : x1 \in 0..InterpMax, x2 \in 0..InterpMax,
                          y1 \in 0..InterpMax, y2 \in 0..InterpMax}

InitSlope ==
    /\ pc = "slope"
    /\ InitState
    /\ \E a \in SlopeInputs :
        /\ Original_times = ZeroBased(<<a[1], a[2]>>)
        /\ Original_prices = ZeroBased(<<a[3], a[4]>>)
        /\ PrePro_indexFilter = ZeroBased(<<>>)

SlopeStep ==
    /\ pc = "slope"
    /\ output' = << getSlope(Original_times[0], Original_times[1],
                             Original_prices[0], Original_prices[1]),
                    calculateSlope(Original_times[0], Original_times[1],
                                   Original_prices[0], Original_prices[1]) >>
    /\ pc' = "slope_done"
    /\ UNCHANGED <<inputs, i, trendTracker, trendReset, potentialPatterns, globals>>

NextSlope == SlopeStep

SpecSlope == InitSlope /\ [][NextSlope]_vars

(***************************************************************************)
(* The TrendTracker alone: updateTrends at positions 0, 1, 2, ... of every *)
(* pivot stream of TrendLen prices.                                        *)
(***************************************************************************)
InitTrend ==
    /\ pc = "trend"
    /\ InitState
    /\ \E w \in [0..(TrendLen - 1) -> 1..TrendMaxPrice] :
        /\ Original_prices = w
        /\ Original_times = [k \in 0..(TrendLen - 1) |-> k]
        /\ PrePro_indexFilter = [k \in 0..(TrendLen - 1) |-> k]

UpdateTrendsStep ==
    /\ pc = "trend"
    /\ i < M
    /\ LET u == updateTrends(trendTracker, i)
       IN /\ trendTracker' = u.tt
          /\ trendReset' = u.reset
    /\ i' = i + 1
    /\ UNCHANGED <<inputs, pc, potentialPatterns, output, globals>>

NextTrend == UpdateTrendsStep

SpecTrend == InitTrend /\ [][NextTrend]_vars


(***************************************************************************)
(* Properties.  The conditions below are written from the input arrays,    *)
(* independently of the detectors' operators: pivot k of a candidate is    *)
(* pivot startIdx+k of the stream, and a price is compared with the line   *)
(* through pivots 2 and 4 by cross-multiplication (pivot times increase).  *)
(***************************************************************************)
CandP(p, k) == QuerySeries_prices(p.startIdx + k)
CandT(p, k) == QuerySeries_times(p.startIdx + k)
RightShoulderOrig(p) == PrePro_indexFilter[p.startIdx + 5]

\* price y at time t is below / above the line through (t2,p2) and (t4,p4)
BelowLine(t2, p2, t4, p4, t, y) == (y - p2) * (t4 - t2) < (t - t2) * (p4 - p2)
AboveLine(t2, p2, t4, p4, t, y) == (y - p2) * (t4 - t2) > (t - t2) * (p4 - p2)

BelowNecklineAt(p, j) ==
    BelowLine(CandT(p, 2), CandP(p, 2), CandT(p, 4), CandP(p, 4),
              Original_times[j], Original_prices[j])
AboveNecklineAt(p, j) ==
    AboveLine(CandT(p, 2), CandP(p, 2), CandT(p, 4), CandP(p, 4),
              Original_times[j], Original_prices[j])

InvalidationAt(p, j) ==
    IF p.patternName = "SHS" THEN Original_prices[j] > CandP(p, 5)
    ELSE Original_prices[j] < CandP(p, 5)

BreakoutAt(p, j) ==
    IF p.patternName = "SHS"
    THEN BelowNecklineAt(p, j) /\ Original_prices[j + 1] < CandP(p, 5)
    ELSE AboveNecklineAt(p, j) /\ Original_prices[j + 1] > CandP(p, 5)

HasBreakout(p) == p.breakoutIdx # NA_INTEGER

\* the seven inequalities of the SHS shape, and their mirror image, on the
\* window of 6 pivots starting at pos
ShapeSHS(pos) ==
    LET P(k) == QuerySeries_prices(pos + k)
        T(k) == QuerySeries_times(pos + k)
    IN /\ P(0) < P(1) /\ P(0) < P(2) /\ P(1) < P(3) /\ P(5) < P(3)
       /\ AboveLine(T(2), P(2), T(4), P(4), T(5), P(5))
       /\ AboveLine(T(2), P(2), T(4), P(4), T(1), P(1))
       /\ BelowLine(T(2), P(2), T(4), P(4), T(0), P(0))

ShapeISHS(pos) ==
    LET P(k) == QuerySeries_prices(pos + k)
        T(k) == QuerySeries_times(pos + k)
    IN /\ P(0) > P(1) /\ P(0) > P(2) /\ P(1) > P(3) /\ P(5) > P(3)
       /\ BelowLine(T(2), P(2), T(4), P(4), T(5), P(5))
       /\ BelowLine(T(2), P(2), T(4), P(4), T(1), P(1))
       /\ AboveLine(T(2), P(2), T(4), P(4), T(0), P(0))

Candidates == {potentialPatterns[k] : k \in DOMAIN potentialPatterns}

FixedFilled(p, w) == p.returns[w] # NAret
RelFilled(p, w) == p.relReturns[w] # NAret

\* C1: scan horizon.  For every candidate, if no sample j in
\* origIndex(pivot5)+1 .. N-2 satisfies the invalidation condition and some
\* sample there satisfies the breakout condition, the emitted record is valid
\* with breakoutIndex = j+1, breakoutTime = time[j+1], breakoutPrice =
\* price[j+1] for the least such j.
C1_ScanHorizon ==
    pc = "done" =>
        \A k \in DOMAIN potentialPatterns :
            LET p == potentialPatterns[k]
                range == (RightShoulderOrig(p) + 1)..(N - 2)
                hits == {j \in range : BreakoutAt(p, j)}
            IN ((\A j \in range : ~InvalidationAt(p, j)) /\ hits # {})
               => LET j0 == CHOOSE j \in hits : \A j2 \in hits : j <= j2
                  IN /\ output[k].validPattern
                     /\ output[k].breakoutIndexinOrig = j0 + 1
                     /\ output[k].timeStampBreakOut = Original_times[j0 + 1]
                     /\ output[k].priceStampBreakOut = Original_prices[j0 + 1]

\* C2: breakout ordering.  Whenever a candidate has a breakout recorded,
\* breakoutIdx lies after the right-shoulder sample and within the series,
\* sample breakoutIdx-1 is beyond the neckline through pivots 2 and 4 and
\* sample breakoutIdx is beyond the right-shoulder price (below for SHS,
\* above for iSHS).
C2_BreakoutOrdering ==
    \A p \in Candidates :
        HasBreakout(p) =>
            /\ p.breakoutIdx > RightShoulderOrig(p)
            /\ p.breakoutIdx <= N - 1
            /\ IF p.patternName = "SHS"
               THEN /\ BelowNecklineAt(p, p.breakoutIdx - 1)
                    /\ Original_prices[p.breakoutIdx] < CandP(p, 5)
               ELSE /\ AboveNecklineAt(p, p.breakoutIdx - 1)
                    /\ Original_prices[p.breakoutIdx] > CandP(p, 5)

C2_Witness ==
    \E p \in Candidates :
        /\ HasBreakout(p) /\ p.patternName = "iSHS"
        /\ p.breakoutIdx > RightShoulderOrig(p) + 1

\* C3: earliest event decides.  After the main loop has handled pivot
\* position i-1, for every candidate whose right shoulder is at or before
\* that position and every sample j after the right shoulder and up to the
\* current original position: if j is the first sample with an event and the
\* event is a breakout (no invalidation up to and including j), the candidate
\* has its breakout recorded at j+1; if the event is an invalidation, the
\* candidate is finalized without a breakout.
C3_EarliestEventDecides ==
    (pc = "loop" /\ i >= 1) =>
        \A p \in Candidates :
            p.rightShoulderIdx <= i - 1 =>
                \A j \in (RightShoulderOrig(p) + 1)..(PrePro_indexFilter[i - 1]) :
                    LET before == (RightShoulderOrig(p) + 1)..(j - 1)
                        quiet == \A j2 \in before :
                                    ~InvalidationAt(p, j2) /\ ~BreakoutAt(p, j2)
                    IN (j <= N - 2 /\ quiet) =>
                          /\ (~InvalidationAt(p, j) /\ BreakoutAt(p, j))
                                => p.breakoutIdx = j + 1
                          /\ InvalidationAt(p, j)
                                => (p.processed /\ ~HasBreakout(p))

\* C4: Shape Matcher correctness.  On any window of 6 pivots the SHS detector
\* accepts iff the seven SHS inequalities hold, and the iSHS detector accepts
\* iff the seven mirrored inequalities hold.
C4_ShapeMatcher ==
    pc = "shape_done" =>
        /\ (\E p \in Candidates : p.patternName = "SHS" /\ p.startIdx = 0) <=> ShapeSHS(0)
        /\ (\E p \in Candidates : p.patternName = "iSHS" /\ p.startIdx = 0) <=> ShapeISHS(0)

C4_Witness ==
    /\ pc = "shape_done"
    /\ \E p \in Candidates : p.patternName = "SHS"
    /\ Original_prices[2] # Original_prices[4]

\* C5: mutual exclusivity.  No two candidates share a start position: the
\* SHS and the iSHS detector never both accept the same window.
C5_MutualExclusivity ==
    \A k1, k2 \in DOMAIN potentialPatterns :
        k1 # k2 => potentialPatterns[k1].startIdx # potentialPatterns[k2].startIdx

C5_Witness ==
    /\ pc = "shape_done"
    /\ \E p \in Candidates : p.patternName = "iSHS"
    /\ Original_prices[2] # Original_prices[4]

\* C6: valid flag and missing fields.  In the output a record is valid iff a
\* breakout was recorded for its candidate, and every record that is not
\* valid has a missing breakout index, time and price and 11 missing returns.
C6_ValidFlag ==
    pc = "done" =>
        /\ Len(output) = Len(potentialPatterns)
        /\ \A k \in DOMAIN output :
            /\ output[k].validPattern <=> HasBreakout(potentialPatterns[k])
            /\ ~output[k].validPattern =>
                  /\ output[k].breakoutIndexinOrig = NA_INTEGER
                  /\ output[k].timeStampBreakOut = NA_INTEGER
                  /\ output[k].priceStampBreakOut = NA_REAL
                  /\ \A w \in 1..NumFixed : output[k].returns[w] = NAret
                  /\ \A w \in 1..NumRel : output[k].relReturns[w] = NAret

C6_Witness ==
    /\ pc = "done"
    /\ \E k \in DOMAIN output :
          output[k].validPattern /\ output[k].returns[1] # NAret
    /\ \E k \in DOMAIN output :
          ~output[k].validPattern /\ output[k].breakoutIndexinOrig = NA_INTEGER

\* C7: every candidate is emitted exactly once.  The output holds exactly one
\* record for each (position, kind) the Shape Matcher accepts at a position
\* the scan visits, no other record, at most one record per start position,
\* and the records are in increasing start-position order.
C7_EmittedOnce ==
    pc = "done" =>
        /\ \A pos \in 0..(M - 7) :
            /\ Cardinality({k \in DOMAIN output :
                    output[k].firstIndexinPrePro = pos + 1 /\ output[k].PatternName = "SHS"})
                 = (IF ShapeSHS(pos) THEN 1 ELSE 0)
            /\ Cardinality({k \in DOMAIN output :
                    output[k].firstIndexinPrePro = pos + 1 /\ output[k].PatternName = "iSHS"})
                 = (IF ShapeISHS(pos) THEN 1 ELSE 0)
        /\ \A k \in DOMAIN output :
            /\ output[k].firstIndexinPrePro - 1 \in 0..(M - 7)
            /\ output[k].PatternName \in {"SHS", "iSHS"}
        /\ \A k1, k2 \in DOMAIN output :
            k1 < k2 => output[k1].firstIndexinPrePro < output[k2].firstIndexinPrePro

C7_Witness ==
    /\ pc = "done"
    /\ \E k1, k2 \in DOMAIN output :
          /\ output[k1].PatternName = "SHS" /\ output[k2].PatternName = "iSHS"
          /\ output[k1].validPattern /\ ~output[k2].validPattern

\* C8: trend counters.  All four run counters are >= 0, at most one of the
\* two counters of a parity class is non-zero, and whenever an update takes a
\* counter from non-zero to zero the opposite counter of the same parity is
\* exactly 1 after that update.
C8_CounterState ==
    /\ trendTracker.ascLowCount >= 0 /\ trendTracker.descLowCount >= 0
    /\ trendTracker.ascHighCount >= 0 /\ trendTracker.descHighCount >= 0
    /\ ~(trendTracker.ascLowCount # 0 /\ trendTracker.descLowCount # 0)
    /\ ~(trendTracker.ascHighCount # 0 /\ trendTracker.descHighCount # 0)

C8_ResetStep ==
    /\ (trendTracker.ascLowCount # 0 /\ trendTracker'.ascLowCount = 0)
          => trendTracker'.descLowCount = 1
    /\ (trendTracker.descLowCount # 0 /\ trendTracker'.descLowCount = 0)
          => trendTracker'.ascLowCount = 1
    /\ (trendTracker.ascHighCount # 0 /\ trendTracker'.ascHighCount = 0)
          => trendTracker'.descHighCount = 1
    /\ (trendTracker.descHighCount # 0 /\ trendTracker'.descHighCount = 0)
          => trendTracker'.ascHighCount = 1

C8_TrendCounters == [](C8_CounterState) /\ [][C8_ResetStep]_vars

C8_Witness ==
    /\ pc = "trend"
    /\ trendReset
    /\ trendTracker.descLowCount = 0 /\ trendTracker.prevDescLowCount = 2
    /\ trendTracker.ascLowCount = 1

\* C9: forced finalization.  When findPatterns has finished, every candidate
\* with a confirmed breakout has its following trend marked complete.
C9_FollowingTrendFinalized ==
    pc = "done" =>
        \A p \in Candidates : HasBreakout(p) => p.followingTrendComplete

\* C10: return slots are write-once and ordered.  In every step a filled
\* slot of a candidate keeps its value, and after every step a slot is filled
\* only if the slot with the next smaller threshold of its group is filled.
C10_Ordered(p) ==
    /\ \A w \in 2..NumFixed : FixedFilled(p, w) => FixedFilled(p, w - 1)
    /\ \A w \in 2..NumRel : RelFilled(p, w) => RelFilled(p, w - 1)

C10_Step ==
    /\ \A k \in DOMAIN potentialPatterns :
          /\ k \in DOMAIN potentialPatterns'
          /\ \A w \in 1..NumFixed :
                FixedFilled(potentialPatterns[k], w)
                    => potentialPatterns'[k].returns[w] = potentialPatterns[k].returns[w]
          /\ \A w \in 1..NumRel :
                RelFilled(potentialPatterns[k], w)
                    => potentialPatterns'[k].relReturns[w] = potentialPatterns[k].relReturns[w]
    /\ \A k \in DOMAIN potentialPatterns' : C10_Ordered(potentialPatterns'[k])

C10_ReturnSlotsWriteOnce == [][C10_Step]_vars

C10_Witness ==
    \E p \in Candidates :
        /\ FixedFilled(p, 6) /\ RelFilled(p, 5)
        /\ p.returns[6] # Ratio(p.priceStamps[6], p.priceStamps[6])
        /\ p.returns[6][2] # p.returns[5][2] \/ p.returns[6][3] # p.returns[5][3]

\* C11: candidate geometry.  Every candidate created at pivot position i
\* stores the (time, price) pairs of pivots i..i+5, has right-shoulder pivot
\* index i+5, the neckline of its breakout check is the line through its
\* stored pivots 2 and 4, and no step changes these pairs or indices.
C11_Stored(p) ==
    /\ p.rightShoulderIdx = p.startIdx + 5
    /\ \A k \in 0..5 :
          p.timeStamps[k] = CandT(p, k) /\ p.priceStamps[k] = CandP(p, k)
    /\ \A j \in DOMAIN Original_times :
          LET q == PatternNeckline(p, Original_times[j])
          IN /\ q[2] > 0
             /\ (q[1] - p.priceStamps[2] * q[2]) * (p.timeStamps[4] - p.timeStamps[2])
                  = (Original_times[j] - p.timeStamps[2])
                      * (p.priceStamps[4] - p.priceStamps[2]) * q[2]

C11_Step ==
    \A k \in DOMAIN potentialPatterns :
        /\ k \in DOMAIN potentialPatterns'
        /\ potentialPatterns'[k].startIdx = potentialPatterns[k].startIdx
        /\ potentialPatterns'[k].rightShoulderIdx = potentialPatterns[k].rightShoulderIdx
        /\ \A n \in 0..5 :
              /\ potentialPatterns'[k].timeStamps[n] = potentialPatterns[k].timeStamps[n]
              /\ potentialPatterns'[k].priceStamps[n] = potentialPatterns[k].priceStamps[n]

C11_CandidateGeometry ==
    [](\A p \in Candidates : C11_Stored(p)) /\ [][C11_Step]_vars

C11_Witness ==
    \E p1, p2 \in Candidates :
        /\ p1.startIdx = 0 /\ HasBreakout(p1) /\ p1.processed
        /\ p2.startIdx > 0 /\ p2.timeStamps[0] > 0

\* C12: boundary on input size.  With fewer than 7 pivot indices, findPatterns
\* returns a result without candidate records and does no detection, no trend
\* update and no breakout scan: no candidate exists, the trend counters stay
\* zero and the main loop is never entered.
C12_ShortInput ==
    M < 7 =>
        /\ pc \in {"start", "error"}
        /\ i = 0
        /\ potentialPatterns = <<>>
        /\ output = <<>>
        /\ trendTracker.ascLowCount = 0 /\ trendTracker.descLowCount = 0
        /\ trendTracker.ascHighCount = 0 /\ trendTracker.descHighCount = 0
        /\ ~trendReset
        /\ pc = "error" => returned = << <<>> >>
        /\ pc = "start" => returned = <<>>

C12_Witness ==
    /\ pc = "error"
    /\ M = 6
    /\ ShapeSHS(0)
    /\ returned = << <<>> >>

\* C13: input-contract violations.  When the time and price arrays differ
\* in length, a pivot index is out of range, or time is not strictly
\* increasing, findPatterns creates no candidate, records no breakout and
\* returns a result without records.
TimesIncreasing ==
    \A j \in DOMAIN Original_times :
        (j + 1) \in DOMAIN Original_times => Original_times[j] < Original_times[j + 1]

ContractViolated ==
    \/ DOMAIN Original_times # DOMAIN Original_prices
    \/ \E k \in DOMAIN PrePro_indexFilter :
          PrePro_indexFilter[k] < 0 \/ PrePro_indexFilter[k] >= N
    \/ ~TimesIncreasing

C13_NoPartialWork ==
    ContractViolated =>
        /\ potentialPatterns = <<>>
        /\ output = <<>>
        /\ \A k \in DOMAIN returned : returned[k] = <<>>

\* C14: memory safety on well-formed input.  With at least 7 pivots, pivot
\* indices increasing from 0 and below N, and arrays of equal length, the call
\* never ends in the error exit, every main-loop iteration reads pivot
\* elements only in 0..M-1 and samples only in 0..N-1, and a recorded breakout
\* index j+1 is at most N-1, so no breakout comes from the last sample.
WellFormedInput ==
    /\ M >= 7
    /\ DOMAIN Original_times = DOMAIN Original_prices
    /\ PrePro_indexFilter[0] = 0
    /\ \A k \in DOMAIN PrePro_indexFilter :
          /\ PrePro_indexFilter[k] < N
          /\ (k + 1) \in DOMAIN PrePro_indexFilter
                => PrePro_indexFilter[k] < PrePro_indexFilter[k + 1]

C14_IterationReads ==
    (WellFormedInput /\ pc' = "loop") =>
        /\ PivotReads(potentialPatterns', i) \subseteq 0..(M - 1)
        /\ SampleReads(potentialPatterns', i) \subseteq 0..(N - 1)
        /\ \A k \in DOMAIN potentialPatterns' :
              HasBreakout(potentialPatterns'[k]) =>
                  /\ potentialPatterns'[k].breakoutIdx - 1 <= N - 2
                  /\ potentialPatterns'[k].breakoutIdx - 1 >= 0

C14_MemorySafety ==
    [](WellFormedInput => pc # "error") /\ [][C14_IterationReads]_vars

C14_Witness ==
    /\ WellFormedInput
    /\ pc = "loop"
    /\ i >= 1
    /\ \E p \in Candidates :
          HasBreakout(p) /\ p.breakoutIdx = PrePro_indexFilter[i - 1] + 1

\* C15: degenerate interpolation.  safeLinearInterpolation(x1,x2,y1,y2,x)
\* returns (y1+y2)/2 when x1 = x2, with a non-zero divisor, e.g. 15 for
\* (5,5,10,20,5); when x1 # x2 it returns the value at x of the line through
\* (x1,y1) and (x2,y2), also for x outside [x1,x2].
C15_Interpolation ==
    pc = "interp_done" =>
        LET x1 == Original_times[0]
            x2 == Original_times[1]
            x == Original_times[2]
            y1 == Original_prices[0]
            y2 == Original_prices[1]
            r == output[1]
        IN /\ r[2] # 0
           /\ IF x1 = x2
              THEN 2 * r[1] = (y1 + y2) * r[2]
              ELSE (r[1] - y1 * r[2]) * (x2 - x1) = (x - x1) * (y2 - y1) * r[2]

C15_Witness ==
    /\ pc = "interp_done"
    /\ Original_times = ZeroBased(<<5, 5, 5>>)
    /\ Original_prices = ZeroBased(<<10, 20>>)
    /\ output[1][1] = 15 * output[1][2]

KindAndStart(rows) ==
    [k \in DOMAIN rows |-> <<rows[k].PatternName, rows[k].firstIndexinPrePro>>]

C17_SameCandidates ==
    pc \in {"done", "error"} => KindAndStart(output) = KindAndStart(FastFindII)

C17_Witness ==
    /\ pc = "done"
    /\ \E k \in DOMAIN output : output[k].PatternName = "iSHS"
    /\ \E k \in DOMAIN output : output[k].PatternName = "SHS" /\ output[k].firstIndexinPrePro > 1
    /\ KindAndStart(output) = KindAndStart(FastFindII)


\* C18: for every candidate reported by both implementations, findPatterns and
\* FastFindII agree on the valid flag and, when it is valid, on the breakout
\* index in the original series.
SameCandidate(a, b) ==
    a.PatternName = b.PatternName /\ a.firstIndexinPrePro = b.firstIndexinPrePro

C18_SameBreakouts ==
    pc = "done" =>
        \A k \in DOMAIN output : \A l \in DOMAIN FastFindII :
            SameCandidate(output[k], FastFindII[l]) =>
                /\ output[k].validPattern = FastFindII[l].validPattern
                /\ output[k].validPattern =>
                       output[k].breakoutIndexinOrig = FastFindII[l].breakoutIndexinOrig


\* C19: a recorded breakout is terminal. In every step, a candidate that already
\* has its breakout keeps it, and is marked processed only by the returns update
\* that fills its last return slot, never by the invalidation rule.
C19_Step ==
    \A k \in DOMAIN potentialPatterns :
        (k \in DOMAIN potentialPatterns' /\ HasBreakout(potentialPatterns[k])) =>
            /\ potentialPatterns'[k].breakoutIdx = potentialPatterns[k].breakoutIdx
            /\ (~potentialPatterns[k].processed /\ potentialPatterns'[k].processed) =>
                   AllFound(potentialPatterns'[k])

C19_BreakoutTerminal == [][C19_Step]_vars


\* the first sample the breakout scan of candidate p looks at
FirstScanned(p) == RightShoulderOrig(p) + 1

\* C20 as stated: the invalidation check is skipped at the first scanned sample,
\* so a candidate finalized without a breakout was invalidated by a sample after
\* origIndex(pivot5)+1.
C20_SkippedAtStart ==
    (pc = "loop" /\ i >= 1) =>
        \A p \in Candidates :
            (p.processed /\ ~HasBreakout(p)) =>
                \E j \in (FirstScanned(p) + 1)..(PrePro_indexFilter[i - 1]) :
                    InvalidationAt(p, j)

\* C20, amended: the scan starts at origIndex(pivot5)+1 and the invalidation
\* check is applied at every scanned sample, the first one included.  After the
\* iteration of pivot position i-1, for every candidate whose right shoulder is
\* at or before that position: if the first sample with an event, among those
\* from origIndex(pivot5)+1 up to the current original position, has its price
\* beyond the right-shoulder price (SHS: above, iSHS: below), the candidate is
\* finalized without a breakout; and a candidate is finalized without a
\* breakout only if some sample of that range has its price beyond it.
C20_InvalidationFromFirstSample ==
    (pc = "loop" /\ i >= 1) =>
        \A p \in Candidates :
            /\ p.rightShoulderIdx <= i - 1 =>
                  \A j \in FirstScanned(p)..(PrePro_indexFilter[i - 1]) :
                      LET quiet == \A j2 \in FirstScanned(p)..(j - 1) :
                                      ~InvalidationAt(p, j2) /\ ~BreakoutAt(p, j2)
                      IN (quiet /\ InvalidationAt(p, j)) =>
                             (p.processed /\ ~HasBreakout(p))
            /\ (p.processed /\ ~HasBreakout(p)) =>
                  \E j \in FirstScanned(p)..(PrePro_indexFilter[i - 1]) :
                      InvalidationAt(p, j)

\* a candidate finalized by the price of sample origIndex(pivot5)+1 alone
C20_Witness ==
    /\ pc = "loop" /\ i >= 1
    /\ \E p \in Candidates :
          /\ p.processed /\ ~HasBreakout(p)
          /\ FirstScanned(p) <= PrePro_indexFilter[i - 1]
          /\ InvalidationAt(p, FirstScanned(p))
          /\ \A j \in (FirstScanned(p) + 1)..(PrePro_indexFilter[i - 1]) :
                ~InvalidationAt(p, j)


\* a record of the given kind starting at pivot position pos was emitted
Reported(name, pos) ==
    \E k \in DOMAIN output :
        output[k].PatternName = name /\ output[k].firstIndexinPrePro = pos + 1

\* C21 as stated: the shape test is applied at every pivot position 0..M-6, the
\* last window (pivots M-6..M-1) included, so every window with a shape is
\* reported.
C21_EveryWindow ==
    pc = "done" =>
        \A pos \in 0..(M - 6) :
            /\ ShapeSHS(pos) => Reported("SHS", pos)
            /\ ShapeISHS(pos) => Reported("iSHS", pos)

\* C21, amended: the shape test is applied at every pivot position 0..M-7, i.e.
\* to every window of 6 consecutive pivots that is followed by at least one
\* more pivot: such a window is reported iff it has the shape, and no record
\* starts at position M-6.
C21_WindowsWithFollower ==
    pc = "done" =>
        /\ \A pos \in 0..(M - 7) :
              /\ ShapeSHS(pos) <=> Reported("SHS", pos)
              /\ ShapeISHS(pos) <=> Reported("iSHS", pos)
        /\ \A k \in DOMAIN output : output[k].firstIndexinPrePro - 1 <= M - 7

\* a finished run on an input whose last window has a shape, with records
C21_Witness ==
    /\ pc = "done"
    /\ M >= MinPivots
    /\ ShapeSHS(M - 6) \/ ShapeISHS(M - 6)
    /\ output # <<>>
    /\ ~Reported("SHS", M - 6) /\ ~Reported("iSHS", M - 6)


\* the samples after the breakout of p whose time is more than W after the
\* breakout time, and the earliest of them
SamplesPast(p, W) ==
    {s \in (p.breakoutIdx + 1)..(N - 1) :
        Original_times[s] - Original_times[p.breakoutIdx] > W}

EarliestPast(p, W) ==
    CHOOSE s \in SamplesPast(p, W) : \A s2 \in SamplesPast(p, W) : s <= s2

\* the value a fixed slot w / a relative slot gets when it is filled at sample s
FixedValueAt(p, w, s) ==
    LET a == IF p.patternName = "SHS" THEN Original_prices[p.breakoutIdx]
             ELSE Original_prices[s]
        b == IF p.patternName = "SHS" THEN Original_prices[s]
             ELSE Original_prices[p.breakoutIdx]
    IN IF w = 1 THEN LogRatio(a, b) ELSE Ratio(a, b)

RelValueAt(p, s) ==
    IF p.patternName = "SHS"
    THEN Ratio(Original_prices[p.breakoutIdx], Original_prices[s])
    ELSE Ratio(Original_prices[s], Original_prices[p.breakoutIdx])

\* C22: return sample selection.  For every candidate with a breakout and every
\* filled slot with threshold W, the slot holds the value computed from the
\* earliest original sample s > breakoutIndex with time[s] - breakoutTime > W.
C22_EarliestSample ==
    \A p \in Candidates :
        HasBreakout(p) =>
            /\ \A w \in 1..NumFixed :
                  FixedFilled(p, w) =>
                      p.returns[w] = FixedValueAt(p, w, EarliestPast(p, fixedWindows[w]))
            /\ \A w \in 1..NumRel :
                  RelFilled(p, w) =>
                      p.relReturns[w] = RelValueAt(p, EarliestPast(p, relWindows(p)[w]))


\* C23: pattern length for the relative windows.  For every candidate with a
\* breakout, the relative thresholds updateReturns uses are floor(L/3),
\* floor(L/2), L, 2L, 4L with L = breakoutTime - (time of the candidate's pivot
\* 0), and L = 1 when that difference is <= 0.
PatternLength(p) ==
    LET d == Original_times[p.breakoutIdx] - CandT(p, 0)
    IN IF d <= 0 THEN 1 ELSE d

ClaimedRelWindows(p) ==
    << PatternLength(p) \div 3, PatternLength(p) \div 2, PatternLength(p),
       PatternLength(p) * 2, PatternLength(p) * 4 >>

\* a main-loop iteration in which updateReturns runs for candidate k: the
\* candidate already has its breakout, is not finalized, and the invalidation
\* pre-check at the current pivot sample does not fire
ReturnsUpdated(k) ==
    /\ pc \in {"start", "loop"} /\ pc' = "loop" /\ i' = i + 1
    /\ k \in DOMAIN potentialPatterns
    /\ HasBreakout(potentialPatterns[k]) /\ ~potentialPatterns[k].processed
    /\ PrePro_indexFilter[i] < N - 1
    /\ ~InvalidationAt(potentialPatterns[k], PrePro_indexFilter[i])

C23_Step ==
    \A k \in DOMAIN potentialPatterns :
        ReturnsUpdated(k) =>
            LET p == potentialPatterns[k]
                timeDiff == Original_times[PrePro_indexFilter[i]]
                                - Original_times[p.breakoutIdx]
            IN \A w \in 1..NumRel :
                  RelFilled(potentialPatterns'[k], w)
                      <=> (RelFilled(p, w) \/ timeDiff > ClaimedRelWindows(p)[w])

C23_RelativeThresholds == [][C23_Step]_vars


\* the neckline is crossed at sample k in the direction of candidate p
CrossedAt(p, k) ==
    IF p.patternName = "SHS" THEN BelowNecklineAt(p, k) ELSE AboveNecklineAt(p, k)

\* C24: the recorded breakout is the earliest one.  For every candidate with a
\* breakout recorded at breakoutIdx = j+1, sample j satisfies the breakout
\* condition, no sample k with origIndex(pivot5) < k < j satisfies it, and no
\* sample k with origIndex(pivot5) < k <= j satisfies the invalidation condition.
C24_EarliestBreakout ==
    \A p \in Candidates :
        HasBreakout(p) =>
            LET j == p.breakoutIdx - 1
            IN /\ j > RightShoulderOrig(p)
               /\ BreakoutAt(p, j)
               /\ \A k \in (RightShoulderOrig(p) + 1)..(j - 1) : ~BreakoutAt(p, k)
               /\ \A k \in (RightShoulderOrig(p) + 1)..j : ~InvalidationAt(p, k)

\* a breakout recorded after an earlier sample that crossed the neckline
\* without confirming
C24_Witness ==
    \E p \in Candidates :
        /\ HasBreakout(p)
        /\ \E k \in (RightShoulderOrig(p) + 1)..(p.breakoutIdx - 2) : CrossedAt(p, k)


\* a candidate finalized by the invalidation rule while it was monitored
Invalidated(p) == p.processed /\ ~HasBreakout(p)

\* C25: Invalidated is absorbing.  A candidate that has been invalidated has no
\* breakout index, time or price, all 11 return slots missing and no following
\* trend attached; no later step changes any of its fields; and its record is
\* emitted with validPattern = false and missing breakout fields and returns.
C25_State ==
    \A k \in DOMAIN potentialPatterns :
        LET p == potentialPatterns[k]
        IN Invalidated(p) =>
              /\ p.breakoutIdx = NA_INTEGER
              /\ p.timeStamps[6] = 0 /\ p.priceStamps[6] = 0
              /\ \A w \in 1..NumFixed : ~FixedFilled(p, w)
              /\ \A w \in 1..NumRel : ~RelFilled(p, w)
              /\ p.followingTrendPointsCount = 0 /\ ~p.followingTrendComplete
              /\ p.followingTrendStartPrice = NA_REAL
              /\ p.followingTrendStartTime = INVALID_TIME
              /\ pc = "done" =>
                    /\ k \in DOMAIN output
                    /\ ~output[k].validPattern
                    /\ output[k].breakoutIndexinOrig = NA_INTEGER
                    /\ output[k].timeStampBreakOut = NA_INTEGER
                    /\ output[k].priceStampBreakOut = NA_REAL
                    /\ output[k].TrendPointsCountFollowing = 0
                    /\ \A w \in 1..NumFixed : output[k].returns[w] = NAret
                    /\ \A w \in 1..NumRel : output[k].relReturns[w] = NAret

C25_Step ==
    \A k \in DOMAIN potentialPatterns :
        Invalidated(potentialPatterns[k]) =>
            /\ k \in DOMAIN potentialPatterns'
            /\ potentialPatterns'[k] = potentialPatterns[k]

C25_InvalidatedAbsorbing == [](C25_State) /\ [][C25_Step]_vars

\* an emitted invalidated candidate for which a later visited sample would
\* have satisfied the breakout condition
C25_Witness ==
    /\ pc = "done"
    /\ \E p \in Candidates :
          /\ Invalidated(p)
          /\ \E j \in (RightShoulderOrig(p) + 1)..PrePro_indexFilter[M - 7] :
                /\ j <= N - 2
                /\ BreakoutAt(p, j)
                /\ \E k \in (RightShoulderOrig(p) + 1)..(j - 1) : InvalidationAt(p, k)


\* C26: the breakout fields are write-once.  In every step, a candidate without
\* a breakout either stays without one, its breakout time and price unset, or
\* gets all three fields at once, the time and price being those of sample
\* breakoutIdx; a candidate with a breakout keeps the three values, whatever
\* the later samples are; and the emitted record carries them.
C26_Step ==
    \A k \in DOMAIN potentialPatterns :
        k \in DOMAIN potentialPatterns' =>
            LET p == potentialPatterns[k]
                q == potentialPatterns'[k]
            IN /\ HasBreakout(p) =>
                     /\ q.breakoutIdx = p.breakoutIdx
                     /\ q.timeStamps[6] = p.timeStamps[6]
                     /\ q.priceStamps[6] = p.priceStamps[6]
               /\ (~HasBreakout(p) /\ HasBreakout(q)) =>
                     /\ q.timeStamps[6] = Original_times[q.breakoutIdx]
                     /\ q.priceStamps[6] = Original_prices[q.breakoutIdx]
               /\ ~HasBreakout(q) => (q.timeStamps[6] = 0 /\ q.priceStamps[6] = 0)

C26_Emitted ==
    pc = "done" =>
        \A k \in DOMAIN potentialPatterns :
            HasBreakout(potentialPatterns[k]) =>
                /\ output[k].breakoutIndexinOrig = potentialPatterns[k].breakoutIdx
                /\ output[k].timeStampBreakOut =
                       Original_times[potentialPatterns[k].breakoutIdx]
                /\ output[k].priceStampBreakOut =
                       Original_prices[potentialPatterns[k].breakoutIdx]

C26_BreakoutWriteOnce == [](C26_Emitted) /\ [][C26_Step]_vars

\* a candidate whose breakout was recorded before the last visited pivot sample,
\* where the breakout condition holds again
C26_Witness ==
    /\ pc = "done"
    /\ \E p \in Candidates :
          /\ HasBreakout(p)
          /\ p.breakoutIdx < PrePro_indexFilter[M - 7]
          /\ \E j \in p.breakoutIdx..PrePro_indexFilter[M - 7] :
                j <= N - 2 /\ BreakoutAt(p, j)


\* C27: finalized candidates are immutable.  Once the processed flag of a
\* candidate is set (by invalidation or by its 11 return slots being filled), no
\* step (main-loop iteration with or without a trend reset, end-of-stream
\* flush, result assembly) changes any of its fields.
C27_Step ==
    \A k \in DOMAIN potentialPatterns :
        potentialPatterns[k].processed =>
            /\ k \in DOMAIN potentialPatterns'
            /\ potentialPatterns'[k] = potentialPatterns[k]

C27_FinalizedImmutable == [][C27_Step]_vars

\* after the flush: a candidate finalized with a breakout whose following trend
\* was still open, and one finalized by its last return slot
C27_Witness ==
    /\ pc = "done"
    /\ \E p \in Candidates :
          p.processed /\ HasBreakout(p) /\ ~p.followingTrendComplete
    /\ \E p \in Candidates : p.processed /\ AllFound(p)


\* the prior-trend fields of candidate q agree with the run (count, firstPrice,
\* firstTime): copied when the run has points, count 0 and the sentinels -1 and
\* INVALID_TIME when it has none
PriorIs(q, count, firstPrice, firstTime) ==
    /\ q.priorTrendComplete
    /\ IF count > 0
       THEN /\ q.priorTrendPointsCount = count
            /\ q.priorTrendStartPrice = firstPrice
            /\ q.priorTrendStartTime = firstTime
       ELSE /\ q.priorTrendPointsCount = 0
            /\ q.priorTrendStartPrice = -1
            /\ q.priorTrendStartTime = INVALID_TIME

\* C28: prior-trend attachment.  A candidate created in the iteration of pivot
\* position i leaves that iteration with prior-trend fields equal to the
\* ascending-low run (SHS) or the descending-high run (iSHS) of the tracker as
\* it is right after updateTrends(i), marked complete; a run of count 0 gives
\* count 0 and sentinel start price and time; later steps keep these fields.
C28_Step ==
    \A k \in DOMAIN potentialPatterns' :
        LET q == potentialPatterns'[k]
        IN IF k \in DOMAIN potentialPatterns
           THEN /\ q.priorTrendPointsCount = potentialPatterns[k].priorTrendPointsCount
                /\ q.priorTrendStartPrice = potentialPatterns[k].priorTrendStartPrice
                /\ q.priorTrendStartTime = potentialPatterns[k].priorTrendStartTime
                /\ q.priorTrendComplete = potentialPatterns[k].priorTrendComplete
           ELSE /\ q.startIdx = i
                /\ IF q.patternName = "SHS"
                   THEN PriorIs(q, trendTracker'.ascLowCount,
                                trendTracker'.ascLowFirstPrice,
                                trendTracker'.ascLowFirstTime)
                   ELSE PriorIs(q, trendTracker'.descHighCount,
                                trendTracker'.descHighFirstPrice,
                                trendTracker'.descHighFirstTime)

C28_PriorTrendAttached == [][C28_Step]_vars

\* candidates created with a running prior trend of either kind, and one
\* created with none
C28_Witness ==
    /\ \E p \in Candidates : p.patternName = "SHS" /\ p.priorTrendPointsCount >= 2
    /\ \E p \in Candidates :
          p.priorTrendPointsCount = 0 /\ p.priorTrendStartPrice = -1
                                      /\ p.priorTrendComplete


\* the following-trend fields of a candidate as a triple
FollowingOf(p) ==
    <<p.followingTrendStartPrice, p.followingTrendStartTime, p.followingTrendPointsCount>>

\* the two runs of tracker t that can follow candidate p: descending for SHS,
\* ascending for iSHS, each as <<firstPrice, firstTime, count>>
LowRun(t, p) ==
    IF p.patternName = "SHS"
    THEN <<t.descLowFirstPrice, t.descLowFirstTime, t.descLowCount>>
    ELSE <<t.ascLowFirstPrice, t.ascLowFirstTime, t.ascLowCount>>

HighRun(t, p) ==
    IF p.patternName = "SHS"
    THEN <<t.descHighFirstPrice, t.descHighFirstTime, t.descHighCount>>
    ELSE <<t.ascHighFirstPrice, t.ascHighFirstTime, t.ascHighCount>>

\* what the claim says is recorded for p when tracker t is attached
SelectedRun(t, p) ==
    IF LowRun(t, p)[3] = 0 /\ HighRun(t, p)[3] = 0 THEN FollowingOf(p)
    ELSE IF LowRun(t, p)[3] >= HighRun(t, p)[3] THEN LowRun(t, p)
    ELSE HighRun(t, p)

\* candidate p takes part in the attachment
AwaitsFollowing(p) ==
    ~p.processed /\ HasBreakout(p) /\ ~p.followingTrendComplete

\* C29: following-trend selection.  Whenever the following trend is attached
\* (in an iteration whose updateTrends reported a reset, with the tracker as
\* that call left it, and at the end-of-stream flush) to a not-yet-finalized
\* candidate with a breakout and an incomplete following trend, the recorded
\* (start price, start time, count) are those of the run with the larger
\* count, the low run on a tie, and stay as they were when both counts are 0.
C29_Step ==
    \A k \in DOMAIN potentialPatterns :
        LET p == potentialPatterns[k]
            q == potentialPatterns'[k]
        IN AwaitsFollowing(p) =>
              /\ (pc' = "loop" /\ trendReset')
                    => FollowingOf(q) = SelectedRun(trendTracker', p)
              /\ pc' = "emit"
                    => FollowingOf(q) = SelectedRun(trendTracker, p)

C30_BeforeFlush ==
    pc \in {"start", "loop"} =>
        \A p \in Candidates :
            p.followingTrendComplete => p.followingTrendPointsCount >= TrendCompleteLen

C30_Step ==
    \A k \in DOMAIN potentialPatterns :
        (/\ ~potentialPatterns[k].followingTrendComplete
         /\ potentialPatterns'[k].followingTrendComplete
         /\ potentialPatterns'[k].followingTrendPointsCount < TrendCompleteLen)
            => pc = "loop" /\ pc' = "emit"

C30_CompletionThreshold == [](C30_BeforeFlush) /\ [][C30_Step]_vars

\* a following trend completed while the main loop is still running
C30_Witness ==
    /\ pc = "loop"
    /\ \E p \in Candidates :
          HasBreakout(p) /\ ~p.processed /\ p.followingTrendComplete


\* C31: following trend requires a breakout.  In every state a candidate
\* without a recorded breakout has following run length 0, the unset
\* following start price and time, and a following trend not marked complete;
\* the output rows of such candidates carry the same unset values.
C31_NoBreakoutNoFollowing ==
    /\ \A p \in Candidates :
          ~HasBreakout(p) =>
              /\ p.followingTrendPointsCount = 0
              /\ p.followingTrendStartPrice = NA_REAL
              /\ p.followingTrendStartTime = INVALID_TIME
              /\ ~p.followingTrendComplete
    /\ \A k \in DOMAIN output :
          ~output[k].validPattern =>
              /\ output[k].TrendPointsCountFollowing = 0
              /\ output[k].TrendBeginnPreisFollowing = NA_REAL
              /\ output[k].TrendBeginnZeitFollowing = INVALID_TIME

\* a finished run that reports a candidate without a breakout next to one
\* whose following trend was filled, the tracker holding runs of both
\* directions that the flush could have copied
C31_Witness ==
    /\ pc = "done"
    /\ \E k \in DOMAIN output : ~output[k].validPattern
    /\ \E k \in DOMAIN output : output[k].TrendPointsCountFollowing > 0
    /\ trendTracker.descLowCount + trendTracker.descHighCount > 0
    /\ trendTracker.ascLowCount + trendTracker.ascHighCount > 0


\* the ascending and the descending run of one parity class of tracker t, as
\* <<count, firstIdx, firstPrice, firstTime>>
AscRun(t, high) ==
    IF high
    THEN <<t.ascHighCount, t.ascHighFirstIdx, t.ascHighFirstPrice, t.ascHighFirstTime>>
    ELSE <<t.ascLowCount, t.ascLowFirstIdx, t.ascLowFirstPrice, t.ascLowFirstTime>>

DescRun(t, high) ==
    IF high
    THEN <<t.descHighCount, t.descHighFirstIdx, t.descHighFirstPrice, t.descHighFirstTime>>
    ELSE <<t.descLowCount, t.descLowFirstIdx, t.descLowFirstPrice, t.descLowFirstTime>>

\* run `after` is run `before` extended by one point at pivot position `pos`:
\* the count grows by exactly 1, and pivot pos-2 becomes the first point when
\* the run was empty
Extended(before, after, pos) ==
    /\ after[1] = before[1] + 1
    /\ IF before[1] = 0
       THEN /\ after[2] = pos - 2
            /\ after[3] = QuerySeries_prices(pos - 2)
            /\ after[4] = QuerySeries_times(pos - 2)
       ELSE /\ after[2] = before[2] /\ after[3] = before[3] /\ after[4] = before[4]

\* a main-loop iteration of findPatterns (for pivot position i)
LoopStep == pc \in {"start", "loop"} /\ pc' = "loop"

\* C32: trend update step.  In the iteration of pivot position i >= 2 with
\* price[i] > price[i-2] the ascending run of i's parity class grows by
\* exactly 1 (first point = pivot i-2 when the run was empty), the call
\* reports a reset iff the descending run of that parity was non-zero, and
\* that run is 0 afterwards; symmetric for a strictly lower price.  The
\* following trend is attached in an iteration iff the update reported a
\* reset: without a reset no candidate's following-trend data change, with a
\* reset every waiting candidate receives the selected run.
C32_Step ==
    LoopStep =>
      LET high == i % 2 = 1
          t == trendTracker
          u == trendTracker'
      IN /\ (i >= 2 /\ QuerySeries_prices(i) > QuerySeries_prices(i - 2)) =>
                /\ Extended(AscRun(t, high), AscRun(u, high), i)
                /\ trendReset' = (DescRun(t, high)[1] > 0)
                /\ DescRun(u, high)[1] = 0
         /\ (i >= 2 /\ QuerySeries_prices(i) < QuerySeries_prices(i - 2)) =>
                /\ Extended(DescRun(t, high), DescRun(u, high), i)
                /\ trendReset' = (AscRun(t, high)[1] > 0)
                /\ AscRun(u, high)[1] = 0
         /\ \A k \in DOMAIN potentialPatterns :
               LET p == potentialPatterns[k]
                   q == potentialPatterns'[k]
               IN IF trendReset' /\ AwaitsFollowing(p)
                  THEN FollowingOf(q) = SelectedRun(u, p)
                  ELSE /\ FollowingOf(q) = FollowingOf(p)
                       /\ q.followingTrendComplete = p.followingTrendComplete

C32_TrendUpdateStep == [][C32_Step]_vars

\* right after an iteration whose update reset a run that had grown to two
\* points and started the opposite run, with a waiting candidate that
\* received the run selected for it
C32_Witness ==
    /\ pc = "loop"
    /\ trendReset
    /\ \E high \in BOOLEAN :
          \/ AscRun(trendTracker, high)[1] = 1
                /\ (IF high THEN trendTracker.prevDescHighCount
                    ELSE trendTracker.prevDescLowCount) >= 2
          \/ DescRun(trendTracker, high)[1] = 1
                /\ (IF high THEN trendTracker.prevAscHighCount
                    ELSE trendTracker.prevAscLowCount) >= 2
    /\ \E p \in Candidates :
          /\ HasBreakout(p) /\ ~p.processed
          /\ p.followingTrendPointsCount > 0
          /\ FollowingOf(p) = SelectedRun(trendTracker, p)


\* the four run counters and the stored first points of tracker t
RunsOf(t) ==
    <<AscRun(t, TRUE), AscRun(t, FALSE), DescRun(t, TRUE), DescRun(t, FALSE)>>

\* C33: no-op trend updates.  updateTrends(i) with i < 2, or with
\* price[i] = price[i-2], leaves all four run counters and all stored first
\* points as they were and reports no reset; a running run survives an equal
\* pivot of its parity.
C33_Step ==
    (i' = i + 1 /\ (i < 2 \/ QuerySeries_prices(i) = QuerySeries_prices(i - 2))) =>
        /\ RunsOf(trendTracker') = RunsOf(trendTracker)
        /\ ~trendReset'

C33_NoOpUpdates == [][C33_Step]_vars

\* right after an update at an equal pivot, with a run of that pivot's parity
\* still standing at two points or more
C33_Witness ==
    /\ pc = "trend"
    /\ i >= 3
    /\ QuerySeries_prices(i - 1) = QuerySeries_prices(i - 3)
    /\ ~trendReset
    /\ \/ AscRun(trendTracker, (i - 1) % 2 = 1)[1] >= 2
       \/ DescRun(trendTracker, (i - 1) % 2 = 1)[1] >= 2


\* the slots of candidate q that are filled and were not filled in `before`
\* (a candidate of the state before the step), as the set of their values;
\* the 1-unit fixed window (slot 1 of returns) is left out on request
NewFixed(before, q, withFirst) ==
    { q.returns[w] : w \in { v \in 1..NumFixed :
          /\ FixedFilled(q, v) /\ ~FixedFilled(before, v)
          /\ (withFirst \/ v # 1) } }

NewRel(before, q) ==
    { q.relReturns[w] : w \in { v \in 1..NumRel :
          RelFilled(q, v) /\ ~RelFilled(before, v) } }

\* slot value r is the plain ratio num/den
IsRatio(r, num, den) == r[1] = "ratio" /\ r[2] * den = r[3] * num

\* every slot (other than the 1-unit window) filled in this step for an SHS
\* candidate is sample/breakout when sampleOverBreakout, breakout/sample
\* otherwise, and the other way round for an iSHS candidate; the sample is the
\* original sample of pivot i, the one updateReturns is called with
OrientationStep(sampleOverBreakout) ==
    LoopStep =>
      \A k \in DOMAIN potentialPatterns :
        LET p == potentialPatterns[k]
            q == potentialPatterns'[k]
            sample == Original_prices[PrePro_indexFilter[i]]
            breakoutPrice == Original_prices[q.breakoutIdx]
            direct == (q.patternName = "SHS") = sampleOverBreakout
        IN \A r \in NewFixed(p, q, FALSE) \cup NewRel(p, q) :
              IF direct THEN IsRatio(r, sample, breakoutPrice)
              ELSE IsRatio(r, breakoutPrice, sample)

\* C34: return ratio orientation.  As stated: for an SHS candidate every
\* filled slot other than the 1-unit fixed window holds
\* price[sample]/breakoutPrice, for an iSHS candidate breakoutPrice/price[sample].
C34_OrientationAsStated == [][OrientationStep(TRUE)]_vars

\* C34, amended: an SHS slot holds breakoutPrice/price[sample], an iSHS slot
\* price[sample]/breakoutPrice.
C34_Orientation == [][OrientationStep(FALSE)]_vars

\* candidates with a slot other than the 1-unit window filled from a sample
\* whose price differs from the breakout price
C34_Witness ==
    \E p \in Candidates :
        /\ HasBreakout(p)
        /\ p.patternName = "iSHS"
        /\ \E w \in 2..NumFixed :
              FixedFilled(p, w) /\ p.returns[w][2] # p.returns[w][3]
        /\ \E w \in 1..NumRel :
              RelFilled(p, w) /\ p.relReturns[w][2] # p.relReturns[w][3]


\* slot value r reads as a successful pattern: a ratio above 1, a log-return
\* above 0 (prices are positive, so both mean numerator > denominator)
Successful(r) == r[2] > r[3]

\* C35: return sign convention.  Every slot filled for an SHS candidate reads
\* as successful exactly when the price of the sample it was filled from is
\* below the breakout price, and for an iSHS candidate exactly when it is
\* above the breakout price.
C35_Step ==
    LoopStep =>
      \A k \in DOMAIN potentialPatterns :
        LET p == potentialPatterns[k]
            q == potentialPatterns'[k]
            sample == Original_prices[PrePro_indexFilter[i]]
            breakoutPrice == Original_prices[q.breakoutIdx]
        IN \A r \in NewFixed(p, q, TRUE) \cup NewRel(p, q) :
              Successful(r) <=> IF q.patternName = "SHS" THEN sample < breakoutPrice
                                ELSE sample > breakoutPrice

C35_SignConvention == [][C35_Step]_vars

\* an SHS candidate whose 1-unit log-return and a later ratio read as
\* successful
C35_Witness ==
    \E p \in Candidates :
        /\ HasBreakout(p)
        /\ p.patternName = "SHS"
        /\ FixedFilled(p, 1) /\ Successful(p.returns[1])
        /\ \E w \in 2..NumFixed : FixedFilled(p, w) /\ Successful(p.returns[w])


\* slope value r is 0 for x1 = x2 and (y2 - y1)/(x2 - x1) otherwise
SafeSlopeValue(r, x1, x2, y1, y2) ==
    /\ r[1] = "num"
    /\ IF x1 = x2 THEN r[2] = 0
       ELSE r[2] * (x2 - x1) = (y2 - y1) * r[3]

\* C36: safe slope.  The slope the feature computation obtains (getSlope) is
\* 0 whenever x1 = x2 and (y2 - y1)/(x2 - x1) otherwise.
C36_SafeSlope ==
    pc = "slope_done" =>
        SafeSlopeValue(output[1], Original_times[0], Original_times[1],
                       Original_prices[0], Original_prices[1])


\* the original sample of the pivot the last finished iteration visited
LastVisited == PrePro_indexFilter[i - 1]

\* the original samples a return slot of p can have been filled from so far
SamplesSeen(p) == (p.breakoutIdx + 1)..LastVisited

\* C37: no look-ahead.  After the iteration of pivot position i-1, every
\* candidate with a recorded breakout or invalidated has its right shoulder
\* at a pivot <= i-1, every recorded breakout index is at most the original
\* sample of pivot i-1 plus 1, and every filled return slot holds the value of
\* a sample after the breakout and not beyond the original sample of pivot
\* i-1.
C37_NoLookAhead ==
    \A p \in Candidates :
        /\ (HasBreakout(p) \/ Invalidated(p)) => p.rightShoulderIdx <= i - 1
        /\ HasBreakout(p) =>
              /\ p.breakoutIdx <= LastVisited + 1
              /\ \A w \in 1..NumFixed :
                    FixedFilled(p, w) =>
                        \E s \in SamplesSeen(p) : p.returns[w] = FixedValueAt(p, w, s)
              /\ \A w \in 1..NumRel :
                    RelFilled(p, w) =>
                        \E s \in SamplesSeen(p) : p.relReturns[w] = RelValueAt(p, s)

\* mid-run: a breakout recorded at the sample right after the pivot just
\* visited, beside a candidate whose right shoulder is still ahead and which
\* is untouched
C37_Witness ==
    /\ pc = "loop"
    /\ i < M - 6
    /\ \E p \in Candidates : HasBreakout(p) /\ p.breakoutIdx = LastVisited + 1
    /\ \E p \in Candidates :
          p.rightShoulderIdx > i - 1 /\ ~HasBreakout(p) /\ ~p.processed


\* the prior-trend fields of a candidate as a triple
PriorOf(p) ==
    <<p.priorTrendStartPrice, p.priorTrendStartTime, p.priorTrendPointsCount>>

\* the run of tracker t that a prior-trend attachment to p would read now
PriorRunNow(t, p) ==
    IF p.patternName = "SHS"
    THEN <<t.ascLowFirstPrice, t.ascLowFirstTime, t.ascLowCount>>
    ELSE <<t.descHighFirstPrice, t.descHighFirstTime, t.descHighCount>>

\* C38: prior trend frozen at detection.  No step changes the prior-trend
\* start price, start time or run length of a candidate that already exists,
\* and the emitted rows carry these values.
C38_Step ==
    /\ \A k \in DOMAIN potentialPatterns :
          PriorOf(potentialPatterns'[k]) = PriorOf(potentialPatterns[k])
    /\ \A k \in DOMAIN output' :
          << output'[k].TrendBeginnPreis, output'[k].TrendBeginnZeit,
             output'[k].TrendPointsCount >> = PriorOf(potentialPatterns[k])

C38_PriorTrendFrozen == [][C38_Step]_vars

\* after the flush: a candidate that still holds the prior run of its
\* detection while the tracker's run of that kind has since been reset and
\* has restarted from another pivot
C38_Witness ==
    /\ pc = "emit"
    /\ \E p \in Candidates :
          /\ p.priorTrendPointsCount > 0
          /\ PriorRunNow(trendTracker, p)[3] > 0
          /\ PriorRunNow(trendTracker, p)[2] # p.priorTrendStartTime


\* C39: parity isolation of trend updates.  updateTrends(i) leaves the
\* ascending and the descending run (counter and first point) of the other
\* parity class as they were: of the highs when i is even, of the lows when
\* i is odd.
C39_Step ==
    i' = i + 1 =>
        LET otherHigh == i % 2 = 0
        IN /\ AscRun(trendTracker', otherHigh) = AscRun(trendTracker, otherHigh)
           /\ DescRun(trendTracker', otherHigh) = DescRun(trendTracker, otherHigh)

C39_ParityIsolation == [][C39_Step]_vars

\* right after an update that reset a run of its own parity while a run of
\* the other parity stands at two points or more
C39_Witness ==
    /\ pc = "trend"
    /\ i >= 1
    /\ trendReset
    /\ LET otherHigh == (i - 1) % 2 = 0
       IN \/ AscRun(trendTracker, otherHigh)[1] >= 2
          \/ DescRun(trendTracker, otherHigh)[1] >= 2

=============================================================================
